---- MODULE Spec2Model ----
(***************************************************************************)
(* Model of the lyricweb presentation state (lyricweb/src/model.rs) and of *)
(* the controller handlers that mutate it (songlist.rs, playlist.rs,       *)
(* main.rs, import_export.rs).                                             *)
(*                                                                         *)
(* Strings that the code inspects (entry names, the verse order) are       *)
(* sequences of one-character strings, so that str::split is computed.     *)
(* Vec indices are 0-based as in the source; TLA+ sequences are 1-based,   *)
(* so element i of a Vec is seq[i + 1].                                    *)
(***************************************************************************)
EXTENDS Integers, Sequences, FiniteSets, TLC

\* Bounds of the model.
MaxLyrics == 2
MaxLines == 2
MaxVerseOrderLen == 4

\* Option<T> and the outcome of a call that can panic.
None == [kind |-> "None"]
Some(v) == [kind |-> "Some", val |-> v]
Ok(v) == [kind |-> "Ok", val |-> v]
Panic == [kind |-> "Panic"]

SeqsUpTo(S, n) == UNION {[1..k -> S] : k \in 0..n}

Min(S) == CHOOSE x \in S : \A y \in S : x <= y
Max(S) == CHOOSE x \in S : \A y \in S : x >= y

----------------------------------------------------------------------------
\* Songs (openlyrics/src/types.rs)

\* The characters of a verse order, and the entry names built from them.
Chars == {"a", " "}
EntryNames == {<<"a">>, <<"a", "a">>}

\* A Lines value of a verse; only their number decides the paging.
LinesValues == {"l"}
\* The notation lines of an instrumental entry: none, or several.
InstrumentLines == {<< >>, <<"n", "n">>}

Verse(n, lines) == [type |-> "Verse", name |-> n, lines |-> lines]
Instrument(n, lines) == [type |-> "Instrument", name |-> n, lines |-> lines]

LyricEntry ==
    {Verse(n, l) : n \in EntryNames, l \in SeqsUpTo(LinesValues, MaxLines)}
    \cup {Instrument(n, l) : n \in EntryNames, l \in InstrumentLines}

VerseOrders == {None} \cup {Some(s) : s \in SeqsUpTo(Chars, MaxVerseOrderLen)}

Song == [verse_order : VerseOrders, lyrics : SeqsUpTo(LyricEntry, MaxLyrics)]

\* LyricEntry::name
name(lyric_entry) == lyric_entry.name

\* str::split(' ') as used on the verse order: the pieces between single
\* spaces, empty pieces included; never an empty list.
RECURSIVE Split(_)
Split(s) ==
    IF \A i \in 1..Len(s) : s[i] /= " "
    THEN <<s>>
    ELSE LET i == Min({j \in 1..Len(s) : s[j] = " "})
         IN <<SubSeq(s, 1, i - 1)>> \o Split(SubSeq(s, i + 1, Len(s)))

\* FindEntry resolving a name to the last entry that carries it.
FindEntry_Last(lyrics, verse) ==
    LET hits == {i \in 1..Len(lyrics) : lyrics[i].name = verse}
    IN IF hits = {} THEN None ELSE Some(Max(hits) - 1)

\* song.lyrics.lyrics.iter().enumerate().find(|e| e.name() == verse):
\* the 0-based index of the first entry with that name.
FindEntry(lyrics, verse) ==
    LET hits == {i \in 1..Len(lyrics) : name(lyrics[i]) = verse}
    IN IF hits = {} THEN None ELSE Some(Min(hits) - 1)

----------------------------------------------------------------------------
\* Slides (lyricweb/src/model.rs)

SongStart(song_id) == [type |-> "SongStart", song_id |-> song_id]
Lyrics(song_id, lyric_entry_index, lines_index, last_page) ==
    [type |-> "Lyrics", song_id |-> song_id, lyric_entry_index |-> lyric_entry_index,
     lines_index |-> lines_index, last_page |-> last_page]
TextSlide(text) == [type |-> "Text", text |-> text]

SlideIndex(playlist_id, entry_index, page_index) ==
    [playlist_id |-> playlist_id, entry_index |-> entry_index, page_index |-> page_index]

\* push_lyric_entry_pages marking every page of the last entry as last page.
push_lyric_entry_pages_AnyLine(slides, lyric_entry_index, lyric_entry, song_id, last_entry) ==
    IF lyric_entry.type = "Verse"
    THEN slides \o [k \in 1..Len(lyric_entry.lines) |->
                      Lyrics(song_id, lyric_entry_index, k - 1, last_entry)]
    ELSE Append(slides, Lyrics(song_id, lyric_entry_index, 0, last_entry))

\* push_lyric_entry_pages paging an instrumental entry like a verse.
push_lyric_entry_pages_PerNotationLine(slides, lyric_entry_index, lyric_entry, song_id, last_entry) ==
    slides \o [k \in 1..Len(lyric_entry.lines) |->
                 Lyrics(song_id, lyric_entry_index, k - 1,
                        last_entry /\ (k - 1 = Len(lyric_entry.lines) - 1))]

\* push_lyric_entry_pages with the range of a verse's pages closed at its
\* upper end.
push_lyric_entry_pages_OnePastEnd(slides, lyric_entry_index, lyric_entry, song_id, last_entry) ==
    IF lyric_entry.type = "Verse"
    THEN slides \o [k \in 1..(Len(lyric_entry.lines) + 1) |->
                      Lyrics(song_id, lyric_entry_index, k - 1,
                             last_entry /\ (k - 1 = Len(lyric_entry.lines) - 1))]
    ELSE Append(slides, Lyrics(song_id, lyric_entry_index, 0, last_entry))

\* The pages one visit of a lyric entry appends to the slides.
push_lyric_entry_pages(slides, lyric_entry_index, lyric_entry, song_id, last_entry) ==
    IF lyric_entry.type = "Verse"
    THEN slides \o [k \in 1..Len(lyric_entry.lines) |->
                      Lyrics(song_id, lyric_entry_index, k - 1,
                             last_entry /\ (k - 1 = Len(lyric_entry.lines) - 1))]
    ELSE Append(slides, Lyrics(song_id, lyric_entry_index, 0, last_entry))

\* The loop over the verse order of slides_for_song, from token k on.
RECURSIVE ExpandVerseOrder(_, _, _, _, _)
ExpandVerseOrder(slides, song, song_id, tokens, k) ==
    IF k > Len(tokens) THEN slides
    ELSE LET found == FindEntry(song.lyrics, tokens[k])
             next == IF found.kind = "Some"
                     THEN push_lyric_entry_pages(slides, found.val,
                              song.lyrics[found.val + 1], song_id,
                              (k - 1) = Len(tokens) - 1)
                     ELSE slides
         IN ExpandVerseOrder(next, song, song_id, tokens, k + 1)

\* The loop over the lyric entries of slides_for_song, from entry i on.
RECURSIVE ExpandLyrics(_, _, _, _)
ExpandLyrics(slides, song, song_id, i) ==
    IF i > Len(song.lyrics) THEN slides
    ELSE ExpandLyrics(
             push_lyric_entry_pages(slides, i - 1, song.lyrics[i], song_id,
                                    (i - 1) = Len(song.lyrics) - 1),
             song, song_id, i + 1)

\* State::slides_for_song; &self.songs[&song_id] panics on a missing key.
slides_for_song(songs, song_id) ==
    IF song_id \notin DOMAIN songs THEN Panic
    ELSE LET song == songs[song_id]
             start == <<SongStart(song_id)>>
         IN IF song.verse_order.kind = "Some"
            THEN Ok(ExpandVerseOrder(start, song, song_id, Split(song.verse_order.val), 1))
            ELSE Ok(ExpandLyrics(start, song, song_id, 1))

\* The verse-order walk of State::slide, from token k on, index_left pages
\* still to skip.
RECURSIVE WalkVerseOrder(_, _, _, _, _)
WalkVerseOrder(song, song_id, tokens, k, index_left) ==
    IF k > Len(tokens) THEN None
    ELSE LET found == FindEntry(song.lyrics, tokens[k])
         IN IF found.kind = "None"
            THEN WalkVerseOrder(song, song_id, tokens, k + 1, index_left)
            ELSE LET lyric_entry == song.lyrics[found.val + 1]
                     lines == lyric_entry.lines
                 IN IF lyric_entry.type = "Verse"
                    THEN IF index_left < Len(lines)
                         THEN Some(Lyrics(song_id, found.val, index_left,
                                          (k - 1) = Len(tokens) - 1
                                          /\ index_left = Len(lines) - 1))
                         ELSE WalkVerseOrder(song, song_id, tokens, k + 1,
                                             index_left - Len(lines))
                    ELSE IF index_left = 0
                         THEN Some(Lyrics(song_id, found.val, 0,
                                          (k - 1) = Len(tokens) - 1))
                         ELSE WalkVerseOrder(song, song_id, tokens, k + 1,
                                             index_left - 1)

\* The stored-order walk of State::slide, from entry i on.
RECURSIVE WalkLyrics(_, _, _, _)
WalkLyrics(song, song_id, i, index_left) ==
    IF i > Len(song.lyrics) THEN None
    ELSE LET item == song.lyrics[i]
             lines == item.lines
         IN IF item.type = "Verse"
            THEN IF index_left < Len(lines)
                 THEN Some(Lyrics(song_id, i - 1, index_left,
                                  (i - 1) = Len(song.lyrics) - 1
                                  /\ index_left = Len(lines) - 1))
                 ELSE WalkLyrics(song, song_id, i + 1, index_left - Len(lines))
            ELSE IF index_left = 0
                 THEN Some(Lyrics(song_id, i - 1, 0, (i - 1) = Len(song.lyrics) - 1))
                 ELSE WalkLyrics(song, song_id, i + 1, index_left - 1)

\* State::slide with two slips switched on by its last two arguments: the
\* song start page not subtracted from the page index, and a text entry
\* resolved whatever the page index.
SlideVariant(songs, playlists, index, no_start_page, text_any_page) ==
    IF index.playlist_id \notin DOMAIN playlists THEN None
    ELSE LET entries == playlists[index.playlist_id].entries
         IN IF index.entry_index >= Len(entries) THEN None
            ELSE LET entry == entries[index.entry_index + 1]
                 IN IF entry.type = "Song"
                    THEN IF entry.song_id \notin DOMAIN songs THEN Panic
                         ELSE IF index.page_index = 0
                         THEN Some(SongStart(entry.song_id))
                         ELSE LET song == songs[entry.song_id]
                                  index_left == IF no_start_page THEN index.page_index
                                                ELSE index.page_index - 1
                              IN IF song.verse_order.kind = "Some"
                                 THEN WalkVerseOrder(song, entry.song_id,
                                          Split(song.verse_order.val), 1, index_left)
                                 ELSE WalkLyrics(song, entry.song_id, 1, index_left)
                    ELSE IF index.page_index = 0 \/ text_any_page
                         THEN Some(TextSlide(entry.text))
                         ELSE None

slide_NoStartPage(songs, playlists, index) ==
    SlideVariant(songs, playlists, index, TRUE, FALSE)

slide_TextAnyPage(songs, playlists, index) ==
    SlideVariant(songs, playlists, index, FALSE, TRUE)

\* State::slide. The song is looked up by &self.songs[song_id] before the
\* page index is examined, which panics on a missing key.
slide(songs, playlists, index) ==
    IF index.playlist_id \notin DOMAIN playlists THEN None
    ELSE LET entries == playlists[index.playlist_id].entries
         IN IF index.entry_index >= Len(entries) THEN None
            ELSE LET entry == entries[index.entry_index + 1]
                 IN IF entry.type = "Song"
                    THEN IF entry.song_id \notin DOMAIN songs THEN Panic
                         ELSE IF index.page_index = 0
                         THEN Some(SongStart(entry.song_id))
                         ELSE LET song == songs[entry.song_id]
                                  index_left == index.page_index - 1
                              IN IF song.verse_order.kind = "Some"
                                 THEN WalkVerseOrder(song, entry.song_id,
                                          Split(song.verse_order.val), 1, index_left)
                                 ELSE WalkLyrics(song, entry.song_id, 1, index_left)
                    ELSE IF index.page_index = 0
                         THEN Some(TextSlide(entry.text))
                         ELSE None

\* The loop over the playlist entries of State::slides, from entry e on.
RECURSIVE SlidesOfEntries(_, _, _, _, _)
SlidesOfEntries(slides, songs, playlist_id, entries, e) ==
    IF e > Len(entries) THEN Ok(slides)
    ELSE LET entry == entries[e]
         IN IF entry.type = "Song"
            THEN LET pages == slides_for_song(songs, entry.song_id)
                 IN IF pages.kind = "Panic" THEN Panic
                    ELSE SlidesOfEntries(
                             slides \o [p \in 1..Len(pages.val) |->
                                 <<SlideIndex(playlist_id, e - 1, p - 1), pages.val[p]>>],
                             songs, playlist_id, entries, e + 1)
            ELSE SlidesOfEntries(
                     Append(slides, <<SlideIndex(playlist_id, e - 1, 0),
                                      TextSlide(entry.text)>>),
                     songs, playlist_id, entries, e + 1)

\* slides leaving out the Text entries.
slides_SkipText(songs, playlists, playlist_id) ==
    IF playlist_id \notin DOMAIN playlists THEN Ok(<<>>)
    ELSE LET all == SlidesOfEntries(<<>>, songs, playlist_id,
                                    playlists[playlist_id].entries, 1)
         IN IF all.kind = "Panic" THEN Panic
            ELSE Ok(SelectSeq(all.val, LAMBDA listed : listed[2].type /= "Text"))

\* State::slides
slides(songs, playlists, playlist_id) ==
    IF playlist_id \notin DOMAIN playlists THEN Ok(<<>>)
    ELSE SlidesOfEntries(<<>>, songs, playlist_id, playlists[playlist_id].entries, 1)

----------------------------------------------------------------------------
\* State (lyricweb/src/model.rs): songs and playlists are maps from ids,
\* TLA+ functions over the set of keys; BTreeMap iterates in key order.

Playlist(n, entries) == [name |-> n, entries |-> entries]
SongEntry(song_id) == [type |-> "Song", song_id |-> song_id]
TextEntry(text) == [type |-> "Text", text |-> text]

DefaultTheme == "default"

\* The number of keys taken as the next id.
NextId_Count(map) == Cardinality(DOMAIN map)

\* map.iter().map(|(i, _)| i + 1).max().unwrap_or_default()
NextId(map) == IF DOMAIN map = {} THEN 0 ELSE Max(DOMAIN map) + 1

\* add_song without the search for a structurally equal song.
add_song_NoDedup(songs, song) ==
    LET id == NextId(songs)
    IN [songs |-> (id :> song) @@ songs, id |-> id]

\* State::add_song: the new catalog and the returned id.
add_song(songs, song) ==
    LET existing == {i \in DOMAIN songs : songs[i] = song}
    IN IF existing /= {}
       THEN [songs |-> songs, id |-> Min(existing)]
       ELSE LET id == NextId(songs)
            IN [songs |-> (id :> song) @@ songs, id |-> id]

\* State::add_playlist: the new playlists and the returned id.
add_playlist(playlists, playlist) ==
    LET id == NextId(playlists)
    IN [playlists |-> (id :> playlist) @@ playlists, id |-> id]

\* remove_song leaving the playlists as they are.
remove_song_KeepEntries(songs, playlists, id) ==
    [songs |-> [i \in DOMAIN songs \ {id} |-> songs[i]], playlists |-> playlists]

\* remove_song rewriting the entries of the first playlist only.
remove_song_FirstPlaylist(songs, playlists, id) ==
    [songs |-> [i \in DOMAIN songs \ {id} |-> songs[i]],
     playlists |->
        [p \in DOMAIN playlists |->
            IF p /= Min(DOMAIN playlists) THEN playlists[p]
            ELSE [playlists[p] EXCEPT !.entries =
                    [k \in 1..Len(@) |->
                        IF @[k].type = "Song" /\ @[k].song_id = id
                        THEN TextEntry("Song removed")
                        ELSE @[k]]]]]

\* State::remove_song: the new catalog and playlists.
remove_song(songs, playlists, id) ==
    [songs |-> [i \in DOMAIN songs \ {id} |-> songs[i]],
     playlists |->
        [p \in DOMAIN playlists |->
            [playlists[p] EXCEPT !.entries =
                [k \in 1..Len(@) |->
                    IF @[k].type = "Song" /\ @[k].song_id = id
                    THEN TextEntry("Song removed")
                    ELSE @[k]]]]]

\* move_entry_index with the new index saturating at 0.
move_entry_index_Saturating(entries, entry_index, offset) ==
    LET new_index == Max({0, entry_index + offset})
    IN IF new_index < Len(entries)
       THEN IF entry_index >= Len(entries) THEN Panic
            ELSE Ok([entries |-> [entries EXCEPT ![entry_index + 1] = entries[new_index + 1],
                                                 ![new_index + 1] = entries[entry_index + 1]],
                     moved |-> TRUE])
       ELSE Ok([entries |-> entries, moved |-> FALSE])

\* Playlist::move_entry_index: the new entries and whether the entry moved.
\* Vec::swap panics on an index past the end.
move_entry_index(entries, entry_index, offset) ==
    LET new_index == entry_index + offset
    IN IF new_index >= 0 /\ new_index < Len(entries)
       THEN IF entry_index >= Len(entries) THEN Panic
            ELSE Ok([entries |-> [entries EXCEPT ![entry_index + 1] = entries[new_index + 1],
                                                 ![new_index + 1] = entries[entry_index + 1]],
                     moved |-> TRUE])
       ELSE Ok([entries |-> entries, moved |-> FALSE])

\* The result of remove_from_playlist for the entries left and the
\* coordinate that was selected, with the page index set to page.
RemoveResult(playlists, index, page) ==
    IF \/ index.playlist_id \notin DOMAIN playlists
       \/ index.entry_index >= Len(playlists[index.playlist_id].entries)
    THEN Panic
    ELSE LET old == playlists[index.playlist_id].entries
             entries == [k \in 1..(Len(old) - 1) |->
                            IF k <= index.entry_index THEN old[k] ELSE old[k + 1]]
         IN Ok([playlists |-> [playlists EXCEPT ![index.playlist_id].entries = entries],
                current_slide |->
                    IF entries = << >> THEN None
                    ELSE Some(SlideIndex(index.playlist_id,
                                         IF index.entry_index >= Len(entries)
                                         THEN index.entry_index - 1
                                         ELSE index.entry_index,
                                         page))])

\* remove_from_playlist leaving the page index as it was.
remove_from_playlist_KeepPage(playlists, index) ==
    RemoveResult(playlists, index, index.page_index)

\* remove_from_playlist with the selected coordinate index: a panic, or the
\* playlists and the selection it writes.
remove_from_playlist(playlists, index) ==
    RemoveResult(playlists, index, 0)

\* move_in_playlist leaving the selection where it was.
move_in_playlist_KeepSelection(playlists, index, offset) ==
    IF index.playlist_id \notin DOMAIN playlists THEN Panic
    ELSE LET result == move_entry_index(playlists[index.playlist_id].entries,
                                        index.entry_index, offset)
         IN IF result.kind = "Panic" THEN Panic
            ELSE Ok([playlists |-> [playlists EXCEPT ![index.playlist_id].entries =
                                        result.val.entries],
                     current_slide |-> Some(index)])

\* move_in_playlist with the selected coordinate index: a panic, or the
\* playlists and the selection it writes.
move_in_playlist(playlists, index, offset) ==
    IF index.playlist_id \notin DOMAIN playlists THEN Panic
    ELSE LET result == move_entry_index(playlists[index.playlist_id].entries,
                                        index.entry_index, offset)
         IN IF result.kind = "Panic" THEN Panic
            ELSE Ok([playlists |-> [playlists EXCEPT ![index.playlist_id].entries =
                                        result.val.entries],
                     current_slide |->
                         IF result.val.moved
                         THEN Some([index EXCEPT !.entry_index = @ + offset])
                         ELSE Some(index)])

State(s, p, t) == [songs |-> s, playlists |-> p, theme |-> t]

\* Step 1 of State::merge: add_song for every song of other, in key order,
\* recording other's id -> our id.
RECURSIVE MergeSongs(_, _, _, _)
MergeSongs(our_songs, other_song_ids_to_ours, other_songs, ids) ==
    IF ids = {} THEN [songs |-> our_songs, map |-> other_song_ids_to_ours]
    ELSE LET id == Min(ids)
             added == add_song(our_songs, other_songs[id])
         IN MergeSongs(added.songs, (id :> added.id) @@ other_song_ids_to_ours,
                       other_songs, ids \ {id})

\* RemapEntries leaving every song id as it is in the other state.
RemapEntries_Keep(entries, other_song_ids_to_ours) ==
    [k \in 1..Len(entries) |->
        IF entries[k].type = "Song" /\ entries[k].song_id \notin DOMAIN other_song_ids_to_ours
        THEN TextEntry("Invalid song ID " \o ToString(entries[k].song_id))
        ELSE entries[k]]

\* RemapEntries leaving the entries it cannot map as they are.
RemapEntries_KeepUnmapped(entries, other_song_ids_to_ours) ==
    [k \in 1..Len(entries) |->
        IF entries[k].type = "Song" /\ entries[k].song_id \in DOMAIN other_song_ids_to_ours
        THEN SongEntry(other_song_ids_to_ours[entries[k].song_id])
        ELSE entries[k]]

\* "Update song IDs" of State::merge on one cloned playlist.
RemapEntries(entries, other_song_ids_to_ours) ==
    [k \in 1..Len(entries) |->
        IF entries[k].type = "Song"
        THEN IF entries[k].song_id \in DOMAIN other_song_ids_to_ours
             THEN SongEntry(other_song_ids_to_ours[entries[k].song_id])
             ELSE TextEntry("Invalid song ID " \o ToString(entries[k].song_id))
        ELSE entries[k]]

\* MergePlaylists adding every rewritten playlist, also one already held.
RECURSIVE MergePlaylists_Always(_, _, _, _)
MergePlaylists_Always(our_playlists, other_song_ids_to_ours, other_playlists, ids) ==
    IF ids = {} THEN our_playlists
    ELSE LET id == Min(ids)
             playlist == [other_playlists[id] EXCEPT
                             !.entries = RemapEntries(@, other_song_ids_to_ours)]
         IN MergePlaylists_Always(add_playlist(our_playlists, playlist).playlists,
                                  other_song_ids_to_ours, other_playlists, ids \ {id})

\* Steps 2 and 3 of State::merge: every playlist of other, in key order.
RECURSIVE MergePlaylists(_, _, _, _)
MergePlaylists(our_playlists, other_song_ids_to_ours, other_playlists, ids) ==
    IF ids = {} THEN our_playlists
    ELSE LET id == Min(ids)
             playlist == [other_playlists[id] EXCEPT
                             !.entries = RemapEntries(@, other_song_ids_to_ours)]
             next == IF \E p \in DOMAIN our_playlists : our_playlists[p] = playlist
                     THEN our_playlists
                     ELSE add_playlist(our_playlists, playlist).playlists
         IN MergePlaylists(next, other_song_ids_to_ours, other_playlists, ids \ {id})

\* merge storing the songs of other under the ids they have there.
merge_OwnIds(self, other) ==
    State([id \in DOMAIN self.songs \cup DOMAIN other.songs |->
              IF id \in DOMAIN other.songs THEN other.songs[id] ELSE self.songs[id]],
          MergePlaylists(self.playlists, [id \in DOMAIN other.songs |-> id],
                         other.playlists, DOMAIN other.playlists),
          other.theme)

\* State::merge
merge(self, other) ==
    LET merged == MergeSongs(self.songs, << >>, other.songs, DOMAIN other.songs)
    IN State(merged.songs,
             MergePlaylists(self.playlists, merged.map, other.playlists,
                            DOMAIN other.playlists),
             other.theme)

----------------------------------------------------------------------------
\* The song editor (lyricweb/src/editsong.rs, lyricweb/src/model/helpers.rs).
\* Text is a sequence of characters. The songs it edits carry the edited
\* properties: title, authors, songbooks, verse_order, lyrics, with Lines
\* values made of part, repeat and contents.

Text(text) == [type |-> "Text", text |-> text]
Br == [type |-> "Br"]
Lines(part, repeat, contents) == [part |-> part, repeat |-> repeat, contents |-> contents]
Author(author_type, n) == [author_type |-> author_type, name |-> n]
Songbook(n, entry) == [name |-> n, entry |-> entry]

EditedSong(title, authors, songbooks, verse_order, lyrics) ==
    [title |-> title, authors |-> authors, songbooks |-> songbooks,
     verse_order |-> verse_order, lyrics |-> lyrics]

\* str::trim_start, str::trim_end, str::trim (the only whitespace is " ")
RECURSIVE TrimStart(_)
TrimStart(s) == IF s /= << >> /\ Head(s) = " " THEN TrimStart(Tail(s)) ELSE s

RECURSIVE TrimEndMatches(_, _)
TrimEndMatches(s, ch) ==
    IF s /= << >> /\ s[Len(s)] = ch THEN TrimEndMatches(SubSeq(s, 1, Len(s) - 1), ch)
    ELSE s

Trim(s) == TrimEndMatches(TrimStart(s), " ")

EndsWith(s, ch) == s /= << >> /\ s[Len(s)] = ch

\* str::split(ch): the pieces between separators, empty pieces included.
RECURSIVE SplitOn(_, _)
SplitOn(s, ch) ==
    IF \A i \in 1..Len(s) : s[i] /= ch
    THEN <<s>>
    ELSE LET i == Min({j \in 1..Len(s) : s[j] = ch})
         IN <<SubSeq(s, 1, i - 1)>> \o SplitOn(SubSeq(s, i + 1, Len(s)), ch)

\* str::lines: split at line feeds, without a final empty line.
TextLines(text) ==
    LET pieces == SplitOn(text, "\n")
    IN IF pieces[Len(pieces)] = << >> THEN SubSeq(pieces, 1, Len(pieces) - 1)
       ELSE pieces

\* parse_lines: the lines up to and including the next blank one become one
\* Lines value; rest is what the iterator still holds.
RECURSIVE ParseLinesFrom(_, _)
ParseLinesFrom(contents, lines) ==
    IF lines = << >>
    THEN [lines |-> Lines(None, None, contents), rest |-> << >>]
    ELSE LET line == Trim(Head(lines))
         IN IF line = << >>
            THEN [lines |-> Lines(None, None, contents), rest |-> Tail(lines)]
            ELSE ParseLinesFrom(
                    contents \o (IF contents /= << >> THEN <<Br>> ELSE << >>)
                             \o <<Text(line)>>,
                    Tail(lines))

parse_lines(lines) == ParseLinesFrom(<< >>, lines)

\* The inner loop of set_lyrics_from_text: pages until a line ending in ':'.
RECURSIVE VerseLines(_, _)
VerseLines(verse_lines, lines) ==
    IF lines /= << >> /\ ~EndsWith(Trim(Head(lines)), ":")
    THEN LET parsed == parse_lines(lines)
         IN VerseLines(Append(verse_lines, parsed.lines), parsed.rest)
    ELSE [verse_lines |-> verse_lines, rest |-> lines]

\* The outer loop of set_lyrics_from_text.
RECURSIVE ParseLyrics(_, _)
ParseLyrics(lyrics, lines) ==
    IF lines = << >> THEN lyrics
    ELSE LET line == Trim(Head(lines))
             header == EndsWith(line, ":")
             verse_name == IF header THEN TrimEndMatches(line, ":") ELSE << >>
             verse == VerseLines(<< >>, IF header THEN Tail(lines) ELSE lines)
         IN ParseLyrics(Append(lyrics, Verse(verse_name, verse.verse_lines)), verse.rest)

\* set_lyrics_from_text: the new lyrics.
set_lyrics_from_text(text) == ParseLyrics(<< >>, TextLines(text))

\* str::split_once('(') and str::rsplit_once(' '): None, or the two sides.
SplitOnce(s, ch) ==
    LET hits == {j \in 1..Len(s) : s[j] = ch}
    IN IF hits = {} THEN None
       ELSE Some(<<SubSeq(s, 1, Min(hits) - 1), SubSeq(s, Min(hits) + 1, Len(s))>>)

RSplitOnce(s, ch) ==
    LET hits == {j \in 1..Len(s) : s[j] = ch}
    IN IF hits = {} THEN None
       ELSE Some(<<SubSeq(s, 1, Max(hits) - 1), SubSeq(s, Max(hits) + 1, Len(s))>>)

\* set_authors_from_string: one author per comma-separated piece.
set_authors_from_string(authors) ==
    LET pieces == SplitOn(authors, ",")
    IN [k \in 1..Len(pieces) |->
          LET author == Trim(pieces[k])
              split == SplitOnce(author, "(")
          IN IF split.kind = "Some" /\ EndsWith(split.val[2], ")")
             THEN Author(Some(Trim(TrimEndMatches(split.val[2], ")"))), Trim(split.val[1]))
             ELSE Author(None, author)]

\* set_songbooks_from_string: one songbook per non-empty piece.
set_songbooks_from_string(songbook_entries) ==
    LET pieces == SplitOn(songbook_entries, ",")
        kept == SelectSeq(pieces, LAMBDA piece : Trim(piece) /= << >>)
    IN [k \in 1..Len(kept) |->
          LET songbook_entry == Trim(kept[k])
              split == RSplitOnce(songbook_entry, " ")
          IN IF split.kind = "Some"
             THEN Songbook(split.val[1], Some(split.val[2]))
             ELSE Songbook(songbook_entry, None)]

\* save_song: the catalog after the form is submitted for song_id.
save_song(songs, song_id, title, authors, songbook_entries, verseorder, lyrics) ==
    IF song_id \notin DOMAIN songs THEN songs
    ELSE [songs EXCEPT ![song_id] =
            EditedSong(Trim(title),
                       set_authors_from_string(authors),
                       set_songbooks_from_string(songbook_entries),
                       IF Trim(verseorder) = << >> THEN None ELSE Some(Trim(verseorder)),
                       set_lyrics_from_text(lyrics))]

----------------------------------------------------------------------------
\* The slide content formatter (lyricweb/src/model/slide.rs) and what it
\* calls in openlyrics/src/lib.rs and lyricweb/src/model/helpers.rs.

Chord(contents) == [type |-> "Chord", contents |-> contents]
Comment(text) == [type |-> "Comment", text |-> text]

SlideLine(text, bold) == [text |-> text, bold |-> bold, italic |-> FALSE]
SlideContent(title, lines, credit, t) ==
    [title |-> title, lines |-> lines, credit |-> credit, theme |-> t]

\* text.replace(char::is_whitespace, " ")
ReplaceWhitespace(text) ==
    [k \in 1..Len(text) |-> IF text[k] \in {" ", "\t", "\n"} THEN " " ELSE text[k]]

\* add_simple_contents / add_simple_content: the lines collected so far with
\* the contents added; a chord adds what it holds, a comment nothing.
RECURSIVE add_simple_contents(_, _)
add_simple_contents(contents, simple_lines) ==
    IF contents = << >> THEN simple_lines
    ELSE LET content == Head(contents)
             added ==
                CASE content.type = "Text" ->
                        LET started == IF simple_lines = << >> THEN << << >> >>
                                       ELSE simple_lines
                            text == ReplaceWhitespace(content.text)
                            line == started[Len(started)] \o Trim(text)
                                    \o (IF EndsWith(text, " ") THEN <<" ">> ELSE << >>)
                        IN [started EXCEPT ![Len(started)] = line]
                  [] content.type = "Chord" ->
                        add_simple_contents(content.contents, simple_lines)
                  [] content.type = "Br" -> Append(simple_lines, << >>)
                  [] OTHER -> simple_lines
         IN add_simple_contents(Tail(contents), added)

simplify_contents(contents) ==
    LET simple_lines == add_simple_contents(contents, << >>)
    IN [k \in 1..Len(simple_lines) |-> Trim(simple_lines[k])]

\* lyrics_as_text: the lines of one page, each ended by a line feed.
RECURSIVE WriteLines(_)
WriteLines(lines) ==
    IF lines = << >> THEN << >>
    ELSE Head(lines) \o <<"\n">> \o WriteLines(Tail(lines))

\* lyrics_as_text: the pages of one verse from page k on, a blank line before
\* every page but the first.
RECURSIVE WritePages(_, _)
WritePages(lines, k) ==
    IF k > Len(lines) THEN << >>
    ELSE (IF k > 1 THEN <<"\n">> ELSE << >>)
             \o WriteLines(simplify_contents(lines[k].contents))
             \o WritePages(lines, k + 1)

\* lyrics_as_text: the Verse entries in order, with text what was written so
\* far; every verse but the first follows a blank line.
RECURSIVE WriteVerses(_, _)
WriteVerses(lyrics, text) ==
    IF lyrics = << >> THEN text
    ELSE LET lyric_entry == Head(lyrics)
         IN WriteVerses(Tail(lyrics),
                IF lyric_entry.type = "Verse"
                THEN text \o (IF text /= << >> THEN <<"\n">> ELSE << >>)
                          \o lyric_entry.name \o <<":", "\n">>
                          \o WritePages(lyric_entry.lines, 1)
                ELSE text)

lyrics_as_text(song) == WriteVerses(song.lyrics, << >>)

title_for_song(song) == song.title

\* authors_as_string: "name (type)" or "name", joined with ", ".
RECURSIVE JoinAuthors(_)
JoinAuthors(authors) ==
    IF authors = << >> THEN << >>
    ELSE LET author == Head(authors)
             text == IF author.author_type.kind = "Some"
                     THEN author.name \o <<" ", "(">> \o author.author_type.val \o <<")">>
                     ELSE author.name
         IN IF Tail(authors) = << >> THEN text
            ELSE text \o <<",", " ">> \o JoinAuthors(Tail(authors))

authors_as_string(song) == JoinAuthors(song.authors)

\* The verse-number prefix on every page of the verse.
before_first_line_EveryPage(n, lines_index) ==
    IF n /= << >> /\ n[1] = "v" THEN Some(Tail(n) \o <<".", " ">>) ELSE None

\* before_first_line of song_page
before_first_line(n, lines_index) ==
    IF n /= << >> /\ n[1] = "v" /\ lines_index = 0
    THEN Some(Tail(n) \o <<".", " ">>)
    ELSE None

\* SlideContent::song_page; indexing past the lyrics or the lines panics.
song_page(song, lyric_entry_index, lines_index, t) ==
    IF lyric_entry_index >= Len(song.lyrics) THEN Panic
    ELSE LET item == song.lyrics[lyric_entry_index + 1]
             title == IF lyric_entry_index = 0 /\ lines_index = 0
                      THEN Some(title_for_song(song))
                      ELSE None
         IN IF item.type = "Verse"
            THEN IF lines_index >= Len(item.lines) THEN Panic
                 ELSE LET credit ==
                             IF /\ lyric_entry_index = Len(song.lyrics) - 1
                                /\ lines_index = Len(item.lines) - 1
                             THEN Some(authors_as_string(song))
                             ELSE None
                          line == item.lines[lines_index + 1]
                          prefix == before_first_line(item.name, lines_index)
                          simple == simplify_contents(line.contents)
                          lines ==
                             (IF line.part.kind = "Some"
                              THEN <<SlideLine(<<"(">> \o line.part.val \o <<")">>, TRUE)>>
                              ELSE << >>)
                             \o [k \in 1..Len(simple) |->
                                   SlideLine((IF k = 1 /\ prefix.kind = "Some"
                                              THEN prefix.val ELSE << >>) \o simple[k],
                                             FALSE)]
                             \o (IF line.repeat.kind = "Some"
                                 THEN <<SlideLine(<<"x", " ", ToString(line.repeat.val)>>, TRUE)>>
                                 ELSE << >>)
                      IN Ok(SlideContent(title, lines, credit, t))
            ELSE LET credit == IF lyric_entry_index = Len(song.lyrics) - 1
                               THEN Some(authors_as_string(song))
                               ELSE None
                 IN Ok(SlideContent(title,
                        <<SlideLine(<<"(", "instrumental", " ">> \o item.name \o <<")">>,
                                    FALSE)>>,
                        credit, t))

\* SlideContent::for_slide: None, Some(content) or Panic.
for_slide(state, s) ==
    CASE s.type = "SongStart" -> None
      [] s.type = "Lyrics" ->
            IF s.song_id \notin DOMAIN state.songs THEN Panic
            ELSE LET page == song_page(state.songs[s.song_id], s.lyric_entry_index,
                                       s.lines_index, state.theme)
                 IN IF page.kind = "Panic" THEN Panic ELSE Some(page.val)
      [] OTHER -> Some(SlideContent(None, <<SlideLine(s.text, FALSE)>>, None, state.theme))

\* SlideContent::for_index
for_index(state, index) ==
    LET resolved == slide(state.songs, state.playlists, index)
    IN IF resolved.kind = "Some" THEN for_slide(state, resolved.val) ELSE resolved

\* App's current_slide_content: the content of the selected slide, the
\* default content when nothing is selected or for_index returns None.
current_slide_content(state, current_slide) ==
    LET content == IF current_slide.kind = "Some"
                   THEN for_index(state, current_slide.val)
                   ELSE None
    IN CASE content.kind = "Panic" -> Panic
         [] content.kind = "None" -> Ok(SlideContent(None, << >>, None, DefaultTheme))
         [] OTHER -> Ok(content.val)

----------------------------------------------------------------------------
\* The program state: the State signal, the controller's signals, whether a
\* handler or the view has panicked, and the last call with its result.

VARIABLES songs, playlists, theme, selected_song, current_playlist, current_slide,
          crashed, last

vars == <<songs, playlists, theme, selected_song, current_playlist, current_slide,
          crashed, last>>

ui == <<selected_song, current_playlist, current_slide, crashed>>

NoUi ==
    /\ selected_song = None
    /\ current_playlist = None
    /\ current_slide = None
    /\ crashed = FALSE

\* Every Song entry of every playlist references a song of the catalog.
RefIntegrity ==
    \A p \in DOMAIN playlists :
        \A k \in 1..Len(playlists[p].entries) :
            playlists[p].entries[k].type = "Song"
                => playlists[p].entries[k].song_id \in DOMAIN songs

----------------------------------------------------------------------------
\* Slide expansion and addressing applied to one song: the catalog holds a
\* song drawn from Song under id 0, referenced by the second entry of
\* playlist 1; playlist 0 does not exist.

\* No song of Song has more lyric pages than this.
MaxTokens == (MaxVerseOrderLen + 1) \div 2
MaxPages == Max({MaxLyrics, MaxTokens}) * MaxLines

\* The pages of the song entry up to one past the last possible page, and the
\* first two pages of the text entry, of a missing entry and of a missing
\* playlist.
SongCoords ==
    {SlideIndex(1, 1, g) : g \in 0..(MaxPages + 1)}
    \cup {SlideIndex(p, e, g) : p \in {0, 1}, e \in {0, 2}, g \in {0, 1}}

InitSong ==
    /\ songs \in {(0 :> s) : s \in Song}
    /\ playlists = (1 :> Playlist("Playlist", <<TextEntry("foo"), SongEntry(0)>>))
    /\ theme = DefaultTheme
    /\ NoUi
    /\ last = [op |-> "none"]

CallSlidesForSong(song_id) ==
    /\ last.op = "none"
    /\ last' = [op |-> "slides_for_song", song_id |-> song_id,
                ret |-> slides_for_song(songs, song_id)]
    /\ UNCHANGED <<songs, playlists, theme, ui>>

CallSlides(playlist_id) ==
    /\ last.op = "none"
    /\ last' = [op |-> "slides", playlist_id |-> playlist_id,
                ret |-> slides(songs, playlists, playlist_id)]
    /\ UNCHANGED <<songs, playlists, theme, ui>>

CallSlide(index) ==
    /\ last.op = "none"
    /\ last' = [op |-> "slide", index |-> index,
                ret |-> slide(songs, playlists, index)]
    /\ UNCHANGED <<songs, playlists, theme, ui>>

NextSong ==
    \/ \E song_id \in {0, 1} : CallSlidesForSong(song_id)
    \/ \E playlist_id \in {0, 1} : CallSlides(playlist_id)
    \/ \E index \in SongCoords : CallSlide(index)

SpecSong == InitSong /\ [][NextSong]_vars

----------------------------------------------------------------------------
\* The State operations applied to any stored state: State is deserialized
\* from JSON (local storage, import), so the catalog and the playlists start
\* as any maps over a few ids, dangling song references included.

MaxEntries == 2

\* A two-page verse; a verse order that visits a verse twice, with an
\* instrumental entry that it never names; a song no initial catalog holds.
SongA == [verse_order |-> None, lyrics |-> <<Verse(<<"a">>, <<"l", "l">>)>>]
SongB == [verse_order |-> Some(<<"a", " ", "a">>),
          lyrics |-> <<Verse(<<"a">>, <<"l">>), Instrument(<<"a", "a">>, << >>)>>]
SongC == [verse_order |-> None, lyrics |-> << >>]

StoredSongs == {SongA, SongB}
StoredIds == {0, 1}
StoredEntries == {SongEntry(0), SongEntry(1), TextEntry("foo")}

\* Maps from a subset of ids to values.
Maps(ids, values) == UNION {[d -> values] : d \in SUBSET ids}

StateCoords ==
    {SlideIndex(p, e, g) : p \in StoredIds, e \in 0..MaxEntries, g \in 0..3}

InitState ==
    /\ songs \in Maps(StoredIds, StoredSongs)
    /\ playlists \in Maps(StoredIds,
                          {Playlist("Playlist", e) : e \in SeqsUpTo(StoredEntries, MaxEntries)})
    /\ theme = DefaultTheme
    /\ NoUi
    /\ last = [op |-> "none"]

CallRemoveSong(id) ==
    /\ last.op = "none"
    /\ LET removed == remove_song(songs, playlists, id)
       IN /\ songs' = removed.songs
          /\ playlists' = removed.playlists
    /\ last' = [op |-> "remove_song", id |-> id,
                pre |-> State(songs, playlists, theme)]
    /\ UNCHANGED <<theme, ui>>

\* add_song(song) followed by add_song of a structurally equal song.
CallAddSongTwice(song) ==
    /\ last.op = "none"
    /\ LET first == add_song(songs, song)
           second == add_song(first.songs, song)
       IN /\ songs' = second.songs
          /\ last' = [op |-> "add_song_twice", song |-> song,
                      pre |-> State(songs, playlists, theme),
                      first |-> first.id, mid |-> first.songs, second |-> second.id]
    /\ UNCHANGED <<playlists, theme, ui>>

AddedPlaylists == {Playlist("New", << >>), Playlist("Playlist", <<TextEntry("foo")>>)}

CallAddPlaylist(playlist) ==
    /\ last.op = "none"
    /\ LET added == add_playlist(playlists, playlist)
       IN /\ playlists' = added.playlists
          /\ last' = [op |-> "add_playlist", playlist |-> playlist,
                      pre |-> State(songs, playlists, theme), ret |-> added.id]
    /\ UNCHANGED <<songs, theme, ui>>

Offsets == {-2, -1, 1, 2}

\* playlists[playlist_id].move_entry_index(entry_index, offset)
CallMoveEntryIndex(playlist_id, entry_index, offset) ==
    /\ last.op = "none"
    /\ playlist_id \in DOMAIN playlists
    /\ LET result == move_entry_index(playlists[playlist_id].entries, entry_index, offset)
       IN /\ playlists' = IF result.kind = "Panic" THEN playlists
                          ELSE [playlists EXCEPT ![playlist_id].entries = result.val.entries]
          /\ last' = [op |-> "move_entry_index", playlist_id |-> playlist_id,
                      entry_index |-> entry_index, offset |-> offset,
                      pre |-> State(songs, playlists, theme),
                      ret |-> IF result.kind = "Panic" THEN Panic
                              ELSE Ok(result.val.moved)]
    /\ UNCHANGED <<songs, theme, ui>>

\* States to merge: one song under id 0 or 2 with a playlist that plays it; a
\* playlist with a reference to a song the state does not hold; a song stored
\* twice, and a playlist equal to the default one; no songs.
OtherTheme == "other"

OtherStates ==
    {State((id :> song), (0 :> Playlist("Imported", <<SongEntry(id)>>)), OtherTheme) :
        id \in {0, 2}, song \in {SongA, SongC}}
    \cup {State((0 :> SongA),
                (0 :> Playlist("Imported", <<SongEntry(0), SongEntry(1)>>)),
                OtherTheme),
          State((0 :> SongA) @@ (1 :> SongA) @@ (2 :> SongB),
                (0 :> Playlist("Imported", <<SongEntry(1), SongEntry(2)>>))
                    @@ (1 :> Playlist("Playlist", << >>)),
                OtherTheme),
          State(<< >>, (3 :> Playlist("Playlist", <<TextEntry("foo")>>)), OtherTheme),
          State(<< >>, << >>, OtherTheme)}

\* merge(other) followed by merge(other).
CallMergeTwice(other) ==
    /\ last.op = "none"
    /\ LET once == merge(State(songs, playlists, theme), other)
           twice == merge(once, other)
       IN /\ songs' = twice.songs
          /\ playlists' = twice.playlists
          /\ theme' = twice.theme
          /\ last' = [op |-> "merge_twice", other |-> other,
                      pre |-> State(songs, playlists, theme), once |-> once]
    /\ UNCHANGED ui

NextState ==
    \/ \E id \in StoredIds \cup {2} : CallRemoveSong(id)
    \/ \E song \in StoredSongs \cup {SongC} : CallAddSongTwice(song)
    \/ \E playlist \in AddedPlaylists : CallAddPlaylist(playlist)
    \/ \E other \in OtherStates : CallMergeTwice(other)
    \/ \E playlist_id \in StoredIds, entry_index \in 0..(MaxEntries + 1), offset \in Offsets :
          CallMoveEntryIndex(playlist_id, entry_index, offset)
    \/ \E playlist_id \in StoredIds : CallSlides(playlist_id)
    \/ \E index \in StateCoords : CallSlide(index)

SpecState == InitState /\ [][NextState]_vars

----------------------------------------------------------------------------
\* The controller (main.rs, songlist.rs, playlist.rs, import_export.rs): the
\* handlers of the import form, the song list, the playlist selector, the slide
\* list and the entry buttons, run from the default state. A handler that panics, or whose state change makes
\* the playlist view or the slide preview panic, stops the program.

MaxSongId == 1
MaxPlaylists == 2

ImportedSongs == {SongA}

\* An exported state with one song and a playlist holding that song and a
\* reference to a song the file does not hold.
ImportedStates ==
    {State((0 :> SongB),
           (0 :> Playlist("Playlist", <<SongEntry(0), SongEntry(1)>>)),
           DefaultTheme)}

Texts == {"foo"}

\* The playlist view lists state.slides(current_playlist); the preview shows
\* SlideContent::for_index(state, current_slide).
RenderPanics(s, p, cp, cs) ==
    \/ cp.kind = "Some" /\ slides(s, p, cp.val).kind = "Panic"
    \/ cs.kind = "Some" /\ slide(s, p, cs.val).kind = "Panic"

Render ==
    crashed' = RenderPanics(songs', playlists', current_playlist', current_slide')

\* A panic inside a handler's update closure.
HandlerPanics ==
    /\ crashed' = TRUE
    /\ UNCHANGED <<songs, playlists, theme, selected_song, current_playlist,
                   current_slide>>

\* App and Controller set-up: nothing stored, so the state is State::default
\* and the current playlist becomes the first one.
Init ==
    /\ songs = << >>
    /\ playlists = (0 :> Playlist("Playlist", << >>))
    /\ theme = DefaultTheme
    /\ selected_song = None
    /\ current_playlist = Some(0)
    /\ current_slide = None
    /\ crashed = FALSE
    /\ last = [op |-> "none"]

\* import_str, Format::Xml and Format::Abc
ImportSong(song) ==
    /\ ~crashed
    /\ LET added == add_song(songs, song)
       IN /\ added.id <= MaxSongId
          /\ songs' = added.songs
    /\ UNCHANGED <<playlists, theme, selected_song, current_playlist,
                   current_slide, last>>
    /\ Render

\* import_str, Format::Json
ImportJson(other) ==
    /\ ~crashed
    /\ Cardinality(DOMAIN playlists) + Cardinality(DOMAIN other.playlists) <= MaxPlaylists
    /\ LET merged == merge(State(songs, playlists, theme), other)
       IN /\ \A id \in DOMAIN merged.songs : id <= MaxSongId
          /\ \A p \in DOMAIN merged.playlists : p <= MaxPlaylists
          /\ songs' = merged.songs
          /\ playlists' = merged.playlists
          /\ theme' = merged.theme
    /\ UNCHANGED <<selected_song, current_playlist, current_slide, last>>
    /\ Render

\* change on the song list: an option exists for every song of the catalog.
SelectSong(song_id) ==
    /\ ~crashed
    /\ song_id \in DOMAIN songs
    /\ selected_song' = Some(song_id)
    /\ UNCHANGED <<songs, playlists, theme, current_playlist, current_slide,
                   crashed, last>>

\* remove_from_song_list
RemoveFromSongList ==
    /\ ~crashed
    /\ selected_song.kind = "Some"
    /\ LET removed == remove_song(songs, playlists, selected_song.val)
       IN /\ songs' = removed.songs
          /\ playlists' = removed.playlists
    /\ UNCHANGED <<theme, selected_song, current_playlist, current_slide, last>>
    /\ Render

\* add_song_to_playlist
AddSongToPlaylist ==
    /\ ~crashed
    /\ selected_song.kind = "Some"
    /\ current_playlist.kind = "Some"
    /\ IF current_playlist.val \notin DOMAIN playlists THEN HandlerPanics
       ELSE /\ Len(playlists[current_playlist.val].entries) < MaxEntries
            /\ playlists' = [playlists EXCEPT ![current_playlist.val].entries =
                                Append(@, SongEntry(selected_song.val))]
            /\ UNCHANGED <<songs, theme, selected_song, current_playlist,
                           current_slide>>
            /\ Render
    /\ UNCHANGED last

\* add_text_to_playlist
AddTextToPlaylist(text) ==
    /\ ~crashed
    /\ current_playlist.kind = "Some"
    /\ IF current_playlist.val \notin DOMAIN playlists THEN HandlerPanics
       ELSE /\ Len(playlists[current_playlist.val].entries) < MaxEntries
            /\ playlists' = [playlists EXCEPT ![current_playlist.val].entries =
                                Append(@, TextEntry(text))]
            /\ current_slide' = Some(SlideIndex(current_playlist.val,
                                    Len(playlists[current_playlist.val].entries), 0))
            /\ UNCHANGED <<songs, theme, selected_song, current_playlist>>
            /\ Render
    /\ UNCHANGED last

\* change on the playlist selector: an option exists for every playlist.
SelectPlaylist(playlist_id) ==
    /\ ~crashed
    /\ playlist_id \in DOMAIN playlists
    /\ current_playlist' = Some(playlist_id)
    /\ UNCHANGED <<songs, playlists, theme, selected_song, current_slide, last>>
    /\ Render

\* change on the slide list: an option exists for every slide of the current
\* playlist.
SelectSlide(k) ==
    /\ ~crashed
    /\ current_playlist.kind = "Some"
    /\ LET all == slides(songs, playlists, current_playlist.val)
       IN /\ all.kind = "Ok"
          /\ k \in 1..Len(all.val)
          /\ current_slide' = Some(all.val[k][1])
    /\ UNCHANGED <<songs, playlists, theme, selected_song, current_playlist, last>>
    /\ Render

\* remove_from_playlist
RemoveFromPlaylist ==
    /\ ~crashed
    /\ current_slide.kind = "Some"
    /\ LET result == remove_from_playlist(playlists, current_slide.val)
       IN IF result.kind = "Panic" THEN HandlerPanics
          ELSE /\ playlists' = result.val.playlists
               /\ current_slide' = result.val.current_slide
               /\ UNCHANGED <<songs, theme, selected_song, current_playlist>>
               /\ Render
    /\ UNCHANGED last

\* move_in_playlist
MoveInPlaylist(offset) ==
    /\ ~crashed
    /\ current_slide.kind = "Some"
    /\ LET result == move_in_playlist(playlists, current_slide.val, offset)
       IN IF result.kind = "Panic" THEN HandlerPanics
          ELSE /\ playlists' = result.val.playlists
               /\ current_slide' = result.val.current_slide
               /\ UNCHANGED <<songs, theme, selected_song, current_playlist>>
               /\ Render
    /\ UNCHANGED last

Next ==
    \/ \E song \in ImportedSongs : ImportSong(song)
    \/ \E other \in ImportedStates : ImportJson(other)
    \/ \E song_id \in 0..MaxSongId : SelectSong(song_id)
    \/ RemoveFromSongList
    \/ AddSongToPlaylist
    \/ \E text \in Texts : AddTextToPlaylist(text)
    \/ \E playlist_id \in 0..MaxPlaylists : SelectPlaylist(playlist_id)
    \/ \E k \in 1..(MaxEntries * 4) : SelectSlide(k)
    \/ RemoveFromPlaylist
    \/ \E offset \in {-1, 1} : MoveInPlaylist(offset)

Spec == Init /\ [][Next]_vars

----------------------------------------------------------------------------
\* The catalog under sequences of add_song, remove_song, merge and save_song,
\* from any catalog without duplicates.

OnePage == <<Lines(None, None, <<Text(<<"x">>)>>)>>

SongX == EditedSong(<<"T">>, <<Author(None, <<"A">>)>>, << >>, None,
                    <<Verse(<<"a">>, OnePage)>>)
SongY == EditedSong(<<"T">>, <<Author(None, <<"A">>)>>, << >>, Some(<<"a">>),
                    <<Verse(<<"a">>, OnePage)>>)

CatalogSongs == {SongX, SongY}

\* What the editor's form can hold when it is submitted.
FormTitles == {<<"T">>}
FormAuthors == {<<"A">>, <<"A", " ", "(", "w", ")">>}
FormSongbooks == {<< >>, <<"B", " ", "1">>}
FormVerseOrders == {<< >>, <<" ", "a">>}
FormLyrics == {<< >>, <<"a", ":", "\n", "x", "\n">>}

\* An exported state holding SongY under id 1 and a playlist that plays it.
CatalogStates ==
    {State((1 :> SongY), (0 :> Playlist("Playlist", <<SongEntry(1)>>)), DefaultTheme)}

NoDuplicates(catalog) ==
    \A i, j \in DOMAIN catalog : catalog[i] = catalog[j] => i = j

InitCatalog ==
    /\ songs \in {catalog \in Maps(StoredIds, CatalogSongs) : NoDuplicates(catalog)}
    /\ playlists = (0 :> Playlist("Playlist",
                        SelectSeq(<<SongEntry(0), SongEntry(1)>>,
                                  LAMBDA entry : entry.song_id \in DOMAIN songs)))
    /\ theme = DefaultTheme
    /\ NoUi
    /\ last = [op |-> "none"]

CatalogAddSong(song) ==
    /\ LET added == add_song(songs, song)
       IN /\ added.id <= MaxSongId
          /\ songs' = added.songs
    /\ UNCHANGED <<playlists, theme, ui, last>>

CatalogRemoveSong(id) ==
    /\ LET removed == remove_song(songs, playlists, id)
       IN /\ songs' = removed.songs
          /\ playlists' = removed.playlists
    /\ UNCHANGED <<theme, ui, last>>

CatalogMerge(other) ==
    /\ LET merged == merge(State(songs, playlists, theme), other)
       IN /\ \A id \in DOMAIN merged.songs : id <= MaxSongId
          /\ Cardinality(DOMAIN merged.playlists) <= MaxPlaylists
          /\ songs' = merged.songs
          /\ playlists' = merged.playlists
          /\ theme' = merged.theme
    /\ UNCHANGED <<ui, last>>

CatalogSaveSong(song_id, title, authors, songbook_entries, verseorder, lyrics) ==
    /\ songs' = save_song(songs, song_id, title, authors, songbook_entries,
                          verseorder, lyrics)
    /\ UNCHANGED <<playlists, theme, ui, last>>

NextCatalog ==
    \/ \E song \in CatalogSongs : CatalogAddSong(song)
    \/ \E id \in 0..MaxSongId : CatalogRemoveSong(id)
    \/ \E other \in CatalogStates : CatalogMerge(other)
    \/ \E song_id \in 0..MaxSongId, title \in FormTitles, authors \in FormAuthors,
          songbook_entries \in FormSongbooks, verseorder \in FormVerseOrders,
          lyrics \in FormLyrics :
            CatalogSaveSong(song_id, title, authors, songbook_entries, verseorder, lyrics)

SpecCatalog == InitCatalog /\ [][NextCatalog]_vars

----------------------------------------------------------------------------
\* The formatter applied to the slides of one song: the catalog holds a song
\* with title, authors and full Lines values under id 0, played by the first
\* entry of playlist 0; the second entry is a text.

\* Pages: one line; two lines around a chord, with a repeat count; a part
\* label; a comment only (no text line).
PageX == Lines(None, None, <<Text(<<"x">>)>>)
PageRepeat == Lines(None, Some(2),
                    <<Text(<<"x", " ">>), Chord(<<Text(<<"y">>)>>), Br, Text(<<"\t", "z">>)>>)
PagePart == Lines(Some(<<"p">>), None, <<Text(<<"x">>), Br, Text(<<"y">>)>>)
PageComment == Lines(None, None, <<Comment(<<"k">>)>>)

VerseV1 == Verse(<<"v", "1">>, <<PagePart, PageRepeat>>)
VerseV2 == Verse(<<"v", "2">>, <<PageX>>)
VerseC == Verse(<<"c">>, <<PageRepeat, PageX>>)
VerseComment == Verse(<<"v", "3">>, <<PageComment>>)
Instrumental == Instrument(<<"i">>, << >>)

ContentLyrics ==
    {<<VerseV1, VerseC, VerseV2>>, <<VerseC, VerseV1>>, <<VerseV2>>, <<VerseComment, VerseC>>,
     <<VerseV1, Instrumental>>, <<Instrumental, VerseC>>, << >>}

ContentVerseOrders ==
    {None,
     Some(<<"v", "1", " ", "c", " ", "v", "2", " ", "c">>),
     Some(<<"c", " ", "i">>)}

ContentAuthors ==
    {<< >>, <<Author(None, <<"A">>), Author(Some(<<"w">>), <<"B">>)>>}

ContentSongs ==
    {EditedSong(<<"T">>, authors, << >>, verse_order, lyrics) :
        authors \in ContentAuthors, verse_order \in ContentVerseOrders,
        lyrics \in ContentLyrics}

ContentCoords == {SlideIndex(0, e, g) : e \in 0..2, g \in 0..7}

InitContent ==
    /\ songs \in {(0 :> song) : song \in ContentSongs}
    /\ playlists = (0 :> Playlist("Playlist", <<SongEntry(0), TextEntry(<<"f">>)>>))
    /\ theme = DefaultTheme
    /\ NoUi
    /\ last = [op |-> "none"]

\* SlideContent::for_index(state, index), with the slide it resolves.
CallForIndex(index) ==
    /\ last.op = "none"
    /\ last' = [op |-> "for_index", index |-> index,
                slide |-> slide(songs, playlists, index),
                ret |-> for_index(State(songs, playlists, theme), index)]
    /\ UNCHANGED <<songs, playlists, theme, ui>>

\* PreviewSlides: SlideContent::for_slide on slide k of slides_for_song(0).
CallForSlide(k) ==
    /\ last.op = "none"
    /\ LET all == slides_for_song(songs, 0)
       IN /\ all.kind = "Ok"
          /\ k \in 1..Len(all.val)
          /\ last' = [op |-> "for_slide", index |-> SlideIndex(0, 0, k - 1),
                      slide |-> Some(all.val[k]),
                      ret |-> for_slide(State(songs, playlists, theme), all.val[k])]
    /\ UNCHANGED <<songs, playlists, theme, ui>>

NextContent ==
    \/ \E index \in ContentCoords : CallForIndex(index)
    \/ \E k \in 1..8 : CallForSlide(k)

SpecContent == InitContent /\ [][NextContent]_vars

----------------------------------------------------------------------------
\* Import (lyricweb/src/import_export.rs, lyricutils/src/abc.rs) applied to
\* a stored state. The songs here carry the list of titles, the authors and
\* the time signature; a text is either malformed or the serialisation of a
\* value of one format, and a parser accepts exactly the texts of its format.

Err == [kind |-> "Err"]

TitledSong(titles, authors, time_signature) ==
    [titles |-> titles, authors |-> authors, time_signature |-> time_signature,
     verse_order |-> None, lyrics |-> << >>]

\* tunebook_to_open_lyrics for a tunebook without comment lines whose tunes
\* have no body: the T and M fields of the first tune's header, in order.
RECURSIVE AbcHeader(_, _, _)
AbcHeader(lines, k, song) ==
    IF k > Len(lines) THEN song
    ELSE LET line == lines[k]
         IN AbcHeader(lines, k + 1,
                CASE line.name = "T" -> [song EXCEPT !.titles = Append(@, line.value)]
                  [] line.name = "M" -> [song EXCEPT !.time_signature = Some(line.value)]
                  [] OTHER -> song)

tunebook_to_open_lyrics(tunebook) ==
    IF tunebook.tunes = << >>
    THEN TitledSong(<< >>, << >>, None)
    ELSE AbcHeader(tunebook.tunes[1].header, 1, TitledSong(<< >>, << >>, None))

\* serde_json::from_str, quick_xml::de::from_str and abc_parser's tune_book:
\* the parsed value, or an error for a text that is not of the format.
Parse(format, text) ==
    IF text.kind = format THEN Ok(text.value) ELSE Err

\* The arms of import_str once the text has been parsed: merge for a state,
\* add_song for a song and for the song converted from a tunebook.
ImportParsed(state, format, value) ==
    CASE format = "Json" -> merge(state, value)
      [] format = "Xml" -> [state EXCEPT !.songs = add_song(state.songs, value).songs]
      [] format = "Abc" ->
             [state EXCEPT !.songs =
                  add_song(state.songs, tunebook_to_open_lyrics(value)).songs]

\* import_str adding the default song when the parser fails.
import_str_DefaultOnError(state, format, text) ==
    LET parsed == Parse(format, text)
    IN IF parsed.kind = "Err"
       THEN [state |-> ImportParsed(state, "Xml", TitledSong(<< >>, << >>, None)),
             ret |-> Err]
       ELSE [state |-> ImportParsed(state, format, parsed.val), ret |-> Ok(<< >>)]

\* import_str: the state after the call and the returned Result.
import_str(state, format, text) ==
    LET parsed == Parse(format, text)
    IN IF parsed.kind = "Err"
       THEN [state |-> state, ret |-> Err]
       ELSE [state |-> ImportParsed(state, format, parsed.val), ret |-> Ok(<< >>)]

\* title_for_song on a song with a list of titles: titles[0], which panics
\* on an empty list.
titles_0(song) ==
    IF song.titles = << >> THEN Panic ELSE Ok(song.titles[1])

RECURSIVE SortByTitle(_, _)
SortByTitle(catalog, ids) ==
    IF ids = {} THEN << >>
    ELSE LET order == <<"a", "b">>
             key(i) == CHOOSE k \in 1..Len(order) : order[k] = titles_0(catalog[i]).val
             first == CHOOSE i \in ids :
                          \A j \in ids : \/ key(i) < key(j)
                                         \/ key(i) = key(j) /\ i <= j
         IN <<first>> \o SortByTitle(catalog, ids \ {first})

\* State::songs_by_title: the ids in title order, ties in id order.
songs_by_title(catalog) ==
    IF \E id \in DOMAIN catalog : titles_0(catalog[id]).kind = "Panic"
    THEN Panic
    ELSE Ok(SortByTitle(catalog, DOMAIN catalog))

\* The stored songs of the import runs.
TitledSongs ==
    <<TitledSong(<<"a">>, << >>, None),
      TitledSong(<<"b", "a">>, <<Author(Some("words"), "x")>>, Some("3/4"))>>

\* The texts of the import runs: the kind is malformed or the format of
\* which the text is the serialisation of the value.
ImportTexts ==
    {[kind |-> "malformed", value |-> << >>]}
    \cup {[kind |-> "Json", value |-> state] : state \in
            {State((0 :> TitledSongs[2]),
                   (0 :> Playlist("Playlist", <<SongEntry(0)>>)), OtherTheme),
             State((2 :> TitledSong(<< >>, << >>, None)), << >>, DefaultTheme)}}
    \cup {[kind |-> "Xml", value |-> TitledSongs[k]] : k \in 1..2}
    \cup {[kind |-> "Abc", value |-> [comments |-> << >>, tunes |-> tunes]] : tunes \in
            {<< >>,
             <<[header |-> <<[name |-> "X", value |-> "1"], [name |-> "T", value |-> "b"],
                             [name |-> "T", value |-> "a"], [name |-> "M", value |-> "3/4"]>>,
                body |-> None]>>,
             <<[header |-> <<[name |-> "X", value |-> "1"], [name |-> "T", value |-> "a"]>>,
                body |-> None]>>,
             <<[header |-> <<[name |-> "X", value |-> "1"], [name |-> "M", value |-> "3/4"]>>,
                body |-> None]>>}}

InitImport ==
    /\ songs \in {<< >>, (0 :> TitledSongs[1]), (0 :> TitledSongs[2]),
                  (0 :> TitledSongs[1]) @@ (1 :> TitledSongs[2]), (1 :> TitledSongs[1])}
    /\ \E entries \in {<< >>, <<SongEntry(0)>>, <<TextEntry("foo"), SongEntry(1)>>} :
          /\ \A k \in 1..Len(entries) :
                 entries[k].type = "Song" => entries[k].song_id \in DOMAIN songs
          /\ playlists = (0 :> Playlist("Playlist", entries))
    /\ theme = DefaultTheme
    /\ NoUi
    /\ last = [op |-> "none"]

CallImportStr(format, text) ==
    /\ last.op = "none"
    /\ LET result == import_str(State(songs, playlists, theme), format, text)
       IN /\ songs' = result.state.songs
          /\ playlists' = result.state.playlists
          /\ theme' = result.state.theme
          /\ last' = [op |-> "import_str", format |-> format, text |-> text,
                      pre |-> State(songs, playlists, theme), ret |-> result.ret]
    /\ UNCHANGED ui

\* The song list's view reading State::songs_by_title.
CallSongsByTitle ==
    /\ last.op /= "songs_by_title"
    /\ last' = [op |-> "songs_by_title", ret |-> songs_by_title(songs)]
    /\ UNCHANGED <<songs, playlists, theme, ui>>

NextImport ==
    \/ \E format \in {"Json", "Xml", "Abc"}, text \in ImportTexts : CallImportStr(format, text)
    \/ CallSongsByTitle

SpecImport == InitImport /\ [][NextImport]_vars

----------------------------------------------------------------------------
\* The string form of SlideIndex (Display and FromStr, lyricweb/src/model.rs),
\* which the playlist's slide selector uses as option value. Strings are
\* sequences of characters.

MaxTextLen == 5

DecimalDigits == <<"0", "1", "2", "3", "4", "5", "6", "7", "8", "9">>

\* Display for u32 and usize: the decimal digits, without sign or padding.
RECURSIVE fmt_int(_)
fmt_int(n) ==
    IF n < 10 THEN <<DecimalDigits[n + 1]>>
    ELSE fmt_int(n \div 10) \o <<DecimalDigits[(n % 10) + 1]>>

\* Display for SlideIndex
fmt(index) ==
    fmt_int(index.playlist_id) \o <<",">> \o fmt_int(index.entry_index)
        \o <<",">> \o fmt_int(index.page_index)

ParseSlideIndexError(e) == [kind |-> "Err", error |-> e]

\* str::parse for u32 and usize: an optional + and then one or more decimal
\* digits. The strings of the bound stay below the overflow of the type.
RECURSIVE ParseDigits(_, _, _)
ParseDigits(digits, k, value) ==
    IF k > Len(digits) THEN Ok(value)
    ELSE IF \E d \in 1..10 : DecimalDigits[d] = digits[k]
         THEN LET d == CHOOSE d \in 1..10 : DecimalDigits[d] = digits[k]
              IN ParseDigits(digits, k + 1, value * 10 + (d - 1))
         ELSE ParseSlideIndexError("ParseInt(InvalidDigit)")

parse(src) ==
    IF src = << >> THEN ParseSlideIndexError("ParseInt(Empty)")
    ELSE IF src \in {<<"+">>, <<"-">>} THEN ParseSlideIndexError("ParseInt(InvalidDigit)")
    ELSE IF src[1] = "+" THEN ParseDigits(Tail(src), 1, 0)
    ELSE ParseDigits(src, 1, 0)

\* from_str taking the first three parts and ignoring the others.
from_str_FirstThree(s) ==
    LET parts == SplitOn(s, ",")
    IN IF Len(parts) < 3 THEN ParseSlideIndexError("WrongNumberOfParts")
       ELSE LET playlist_id == parse(parts[1])
                entry_index == parse(parts[2])
                page_index == parse(parts[3])
            IN IF playlist_id.kind = "Err" THEN playlist_id
               ELSE IF entry_index.kind = "Err" THEN entry_index
               ELSE IF page_index.kind = "Err" THEN page_index
               ELSE Ok(SlideIndex(playlist_id.val, entry_index.val, page_index.val))

\* FromStr for SlideIndex
from_str(s) ==
    LET parts == SplitOn(s, ",")
    IN IF Len(parts) /= 3 THEN ParseSlideIndexError("WrongNumberOfParts")
       ELSE LET playlist_id == parse(parts[1])
                entry_index == parse(parts[2])
                page_index == parse(parts[3])
            IN IF playlist_id.kind = "Err" THEN playlist_id
               ELSE IF entry_index.kind = "Err" THEN entry_index
               ELSE IF page_index.kind = "Err" THEN page_index
               ELSE Ok(SlideIndex(playlist_id.val, entry_index.val, page_index.val))

\* No stored state: the calls below apply functions to their arguments.
InitPure ==
    /\ songs = << >>
    /\ playlists = << >>
    /\ theme = DefaultTheme
    /\ NoUi
    /\ last = [op |-> "none"]

\* index.to_string() parsed back.
CallRoundTrip(index) ==
    /\ last.op = "none"
    /\ last' = [op |-> "round_trip", index |-> index, text |-> fmt(index),
                ret |-> from_str(fmt(index))]
    /\ UNCHANGED <<songs, playlists, theme, ui>>

\* s.parse::<SlideIndex>()
CallFromStr(s) ==
    /\ last.op = "none"
    /\ last' = [op |-> "from_str", text |-> s, ret |-> from_str(s)]
    /\ UNCHANGED <<songs, playlists, theme, ui>>

NextIndex ==
    \/ \E playlist_id, entry_index, page_index \in {0, 1, 9, 10, 42, 107} :
          CallRoundTrip(SlideIndex(playlist_id, entry_index, page_index))
    \/ /\ last.op = "none"
       /\ \E s \in SeqsUpTo({"0", "1", "7", ",", "+", "-", "a"}, MaxTextLen) : CallFromStr(s)

SpecIndex == InitPure /\ [][NextIndex]_vars

----------------------------------------------------------------------------
\* The playlist's Remove and Move buttons and the catalog's remove and add
\* applied to a stored state with a selection. Every Song entry references a
\* stored song; the selected coordinate may lie outside the playlists.

InitHandlers ==
    /\ songs \in {<< >>, (0 :> SongA), (1 :> SongB), (0 :> SongA) @@ (1 :> SongB)}
    /\ \E first \in SeqsUpTo({SongEntry(id) : id \in DOMAIN songs} \cup {TextEntry("foo")},
                             MaxEntries),
          others \in {<< >>, <<Playlist("Other", << >>)>>,
                      <<Playlist("Other", <<TextEntry("foo"), TextEntry("bar")>>)>>} :
          playlists = [id \in 0..Len(others) |->
                          IF id = 0 THEN Playlist("Playlist", first) ELSE others[id]]
    /\ theme = DefaultTheme
    /\ selected_song = None
    /\ current_playlist = Some(0)
    /\ current_slide \in {None} \cup {Some(SlideIndex(p, e, g)) :
                                          p \in {0, 1}, e \in 0..MaxEntries, g \in 0..2}
    /\ crashed = FALSE
    /\ last = [op |-> "none"]

\* The Remove button: remove_from_playlist.
CallRemoveFromPlaylist ==
    /\ last.op = "none"
    /\ current_slide.kind = "Some"
    /\ LET result == remove_from_playlist(playlists, current_slide.val)
       IN /\ IF result.kind = "Panic"
             THEN crashed' = TRUE /\ UNCHANGED <<playlists, current_slide>>
             ELSE /\ playlists' = result.val.playlists
                  /\ current_slide' = result.val.current_slide
                  /\ crashed' = FALSE
          /\ last' = [op |-> "remove_from_playlist", index |-> current_slide.val,
                      pre |-> State(songs, playlists, theme)]
    /\ UNCHANGED <<songs, theme, selected_song, current_playlist>>

\* The Move up and Move down buttons: move_in_playlist(-1) and (1).
CallMoveInPlaylist(offset) ==
    /\ last.op = "none"
    /\ current_slide.kind = "Some"
    /\ LET result == move_in_playlist(playlists, current_slide.val, offset)
       IN /\ IF result.kind = "Panic"
             THEN crashed' = TRUE /\ UNCHANGED <<playlists, current_slide>>
             ELSE /\ playlists' = result.val.playlists
                  /\ current_slide' = result.val.current_slide
                  /\ crashed' = FALSE
          /\ last' = [op |-> "move_in_playlist", index |-> current_slide.val,
                      offset |-> offset, pre |-> State(songs, playlists, theme)]
    /\ UNCHANGED <<songs, theme, selected_song, current_playlist>>

\* remove_song(id) followed by add_song(song).
CallRemoveThenAdd(id, song) ==
    /\ last.op = "none"
    /\ LET removed == remove_song(songs, playlists, id)
           added == add_song(removed.songs, song)
       IN /\ songs' = added.songs
          /\ playlists' = removed.playlists
          /\ last' = [op |-> "remove_then_add", id |-> id, song |-> song,
                      pre |-> State(songs, playlists, theme), ret |-> added.id]
    /\ UNCHANGED <<theme, ui>>

NextHandlers ==
    \/ CallRemoveFromPlaylist
    \/ \E offset \in {-1, 1} : CallMoveInPlaylist(offset)
    \/ \E id \in StoredIds, song \in {SongA, SongB, SongC} : CallRemoveThenAdd(id, song)

SpecHandlers == InitHandlers /\ [][NextHandlers]_vars

----------------------------------------------------------------------------
\* The authors field of the song editor (lyricweb/src/editsong.rs): the form
\* shows authors_as_string(song) and save_song passes the field's value to
\* set_authors_from_string.

\* The form opened on a song with the given authors and saved unedited.
CallSaveAuthors(authors) ==
    /\ last.op = "none"
    /\ LET text == authors_as_string(EditedSong(<<"t">>, authors, << >>, None, << >>))
       IN last' = [op |-> "save_authors", authors |-> authors, text |-> text,
                   ret |-> set_authors_from_string(text)]
    /\ UNCHANGED <<songs, playlists, theme, ui>>

NextAuthors ==
    \E authors \in SeqsUpTo({Author(author_type, n) :
                                 author_type \in {None, Some(<<"w">>), Some(<<"m", "u">>)},
                                 n \in {<<"a">>, <<"b", " ", "c">>}}, 3) :
        CallSaveAuthors(authors)

SpecAuthors == InitPure /\ [][NextAuthors]_vars

----------------------------------------------------------------------------
\* The lyrics field of the song editor (lyricweb/src/editsong.rs): the form
\* shows lyrics_as_text(song) and save_song passes the field's value to
\* set_lyrics_from_text.

\* The pages of the songs whose lyrics are written and read back.
TextPages ==
    {Lines(None, None, contents) : contents \in
        {<<Text(<<"a">>)>>, <<Text(<<"a">>), Br, Text(<<"b", " ", "c">>)>>,
         <<Text(<<"a", ":">>)>>}}

\* lyrics_as_text(song), set_lyrics_from_text on it, and lyrics_as_text again.
CallLyricsRoundTrip(lyrics) ==
    /\ last.op = "none"
    /\ LET text == lyrics_as_text(EditedSong(<<"t">>, << >>, << >>, None, lyrics))
           parsed == set_lyrics_from_text(text)
       IN last' = [op |-> "lyrics_round_trip", lyrics |-> lyrics, text |-> text,
                   parsed |-> parsed,
                   again |-> lyrics_as_text(EditedSong(<<"t">>, << >>, << >>, None, parsed))]
    /\ UNCHANGED <<songs, playlists, theme, ui>>

NextLyricsText ==
    \E lyrics \in SeqsUpTo({Verse(n, lines) : n \in {<<"v", "1">>, <<"c">>},
                                              lines \in SeqsUpTo(TextPages, 2)}
                           \cup {Instrument(<<"i">>, << >>)}, 2) :
        CallLyricsRoundTrip(lyrics)

SpecLyricsText == InitPure /\ [][NextLyricsText]_vars

----------------------------------------------------------------------------
\* The remote display: the controller's presentation connection, the receiver
\* page and the messages in flight between them.  The connection is ordered
\* and lossless and is never closed or terminated; each end becomes connected
\* on its own, a message reaches an end once that end is connected, and a
\* message event dispatched to an end that has no listener yet is seen by
\* nobody.  Here `last` holds the two ends of the connection, the controller's
\* Effect and the receiver page.

\* At most MaxInputs times in all, the user selects a slide on the controller,
\* a key is pressed on the receiver or a message that is not slide content is
\* sent to the receiver.
MaxInputs == 2

\* The data of a message event: a string, with the value it is the JSON text
\* of when it is one, or something that is not a string.
JsString(text, json) == [string |-> TRUE, text |-> text, json |-> json]
Binary == [string |-> FALSE, text |-> "", json |-> None]

\* serde_json::to_string(&SlideContent) and serde_json::from_str::<SlideContent>.
serde_json_to_string(content) == JsString("json", Some(content))
serde_json_from_str(data) == IF data.json.kind = "Some" THEN Ok(data.json.val) ELSE Err

\* The coordinates the user and SlideIndex::previous/next move between: the
\* first page of the song and the text entry.
PresentationCoords == {SlideIndex(0, e, 0) : e \in 0..1}

\* The serialised current_slide_content signal.
SlideData ==
    serde_json_to_string(
        current_slide_content(State(songs, playlists, theme), current_slide).val)

\* App and PresentationReceiver after construction: no connection is stored on
\* either side, the Effect has run once and sent nothing, the receiver shows
\* SlideContent::default().
InitPresentation ==
    /\ songs = (0 :> EditedSong(<<"T">>, << >>, << >>, None, <<VerseC>>))
    /\ playlists = (0 :> Playlist("Playlist", <<SongEntry(0), TextEntry(<<"f">>)>>))
    /\ theme = DefaultTheme
    /\ selected_song = None
    /\ current_playlist = None
    /\ current_slide \in {None} \cup {Some(index) : index \in PresentationCoords}
    /\ crashed = FALSE
    /\ last = [op |-> "presentation", state |-> "connecting", connect_event |-> FALSE,
               receiver_state |-> "connecting",
               presentation_connection |-> None, effect |-> FALSE,
               to_receiver |-> << >>, to_controller |-> << >>,
               connection |-> None,
               displayed |-> SlideContent(None, << >>, None, DefaultTheme),
               error |-> None,
               inputs |-> 0, moved |-> FALSE]

\* The connectionavailable handler of setup_presentation_request.
ConnectionAvailable ==
    /\ last.presentation_connection = None
    /\ last' = [last EXCEPT !.presentation_connection = Some("connection"),
                            !.effect = TRUE,
                            !.to_receiver = IF last.state = "connected"
                                            THEN Append(@, SlideData) ELSE @]
    /\ UNCHANGED <<songs, playlists, theme, ui>>

\* The controller's end becomes connected and the browser queues its connect
\* event.
Connected ==
    /\ last.state = "connecting"
    /\ last' = [last EXCEPT !.state = "connected", !.connect_event = TRUE]
    /\ UNCHANGED <<songs, playlists, theme, ui>>

\* The receiver's end becomes connected; its connect listener only logs.
ReceiverConnected ==
    /\ last.receiver_state = "connecting"
    /\ last' = [last EXCEPT !.receiver_state = "connected"]
    /\ UNCHANGED <<songs, playlists, theme, ui>>

\* The connect event is dispatched: the connect listener, when registered.
ConnectEvent ==
    /\ last.connect_event
    /\ last' = [last EXCEPT !.connect_event = FALSE,
                            !.to_receiver = IF last.presentation_connection # None
                                            THEN Append(@, SlideData) ELSE @]
    /\ UNCHANGED <<songs, playlists, theme, ui>>

\* The Effect of setup_presentation_request, run after a signal it reads was
\* written.
RunEffect ==
    /\ last.effect
    /\ last' = [last EXCEPT !.effect = FALSE,
                            !.to_receiver = IF /\ last.presentation_connection # None
                                               /\ last.state = "connected"
                                            THEN Append(@, SlideData) ELSE @]
    /\ UNCHANGED <<songs, playlists, theme, ui>>

\* The user selects a slide, or none, on the controller.
ChangeSlide(index) ==
    /\ last.inputs < MaxInputs
    /\ current_slide' = index
    /\ last' = [last EXCEPT !.effect = TRUE, !.inputs = @ + 1]
    /\ UNCHANGED <<songs, playlists, theme, selected_song, current_playlist, crashed>>

\* A message event on the controller's end: the message listener, when
\* registered.  previous_slide and next_slide move a selected slide to some
\* coordinate and write the signal in every case; moved records that they
\* moved one.
ControllerMessage ==
    /\ last.state = "connected"
    /\ last.to_controller # << >>
    /\ LET data == Head(last.to_controller)
           rest == [last EXCEPT !.to_controller = Tail(@)]
       IN IF last.presentation_connection = None \/ ~data.string
          THEN last' = rest /\ UNCHANGED current_slide
          ELSE IF data.text \in {"prev", "next"}
          THEN /\ last' = [rest EXCEPT !.effect = TRUE,
                                        !.moved = @ \/ current_slide.kind = "Some"]
               /\ IF current_slide.kind = "Some"
                  THEN current_slide' \in {Some(index) : index \in PresentationCoords}
                  ELSE UNCHANGED current_slide
          ELSE /\ last' = [rest EXCEPT !.to_receiver = Append(@, SlideData)]
               /\ UNCHANGED current_slide
    /\ UNCHANGED <<songs, playlists, theme, selected_song, current_playlist, crashed>>

\* setup_connection without the request for the current content.
SetupConnection_NoRequest ==
    /\ last.connection = None
    /\ last' = [last EXCEPT !.connection = Some("connection")]
    /\ UNCHANGED <<songs, playlists, theme, ui>>

\* setup_receiver from its call of setup_connection on.
SetupConnection ==
    /\ last.connection = None
    /\ last' = [last EXCEPT !.connection = Some("connection"),
                            !.to_controller = IF last.receiver_state = "connected"
                                              THEN Append(@, JsString("", None)) ELSE @]
    /\ UNCHANGED <<songs, playlists, theme, ui>>

\* A message event on the receiver's end: the message listener of
\* setup_connection, when registered.
ReceiverMessage ==
    /\ last.receiver_state = "connected"
    /\ last.to_receiver # << >>
    /\ LET data == Head(last.to_receiver)
           rest == [last EXCEPT !.to_receiver = Tail(@)]
           parsed == serde_json_from_str(data)
       IN IF last.connection = None THEN last' = rest
          ELSE IF ~data.string
          THEN last' = [rest EXCEPT !.error = Some("Data is not a string")]
          ELSE IF parsed.kind # "Ok"
          THEN last' = [rest EXCEPT !.error = Some("Error parsing data")]
          ELSE last' = [rest EXCEPT !.displayed = parsed.val]
    /\ UNCHANGED <<songs, playlists, theme, ui>>

\* presentation_receiver_keydown
ReceiverKeydown(key) ==
    /\ last.inputs < MaxInputs
    /\ last' = [last EXCEPT !.inputs = @ + 1,
                            !.to_controller =
                                IF last.connection # None /\ last.receiver_state = "connected"
                                THEN CASE key = "ArrowLeft" -> Append(@, JsString("prev", None))
                                       [] key = "ArrowRight" -> Append(@, JsString("next", None))
                                       [] OTHER -> @
                                ELSE @]
    /\ UNCHANGED <<songs, playlists, theme, ui>>

\* Something that is not the JSON text of a slide is sent to the receiver.
OtherMessage(data) ==
    /\ last.inputs < MaxInputs
    /\ last.state = "connected"
    /\ last' = [last EXCEPT !.inputs = @ + 1, !.to_receiver = Append(@, data)]
    /\ UNCHANGED <<songs, playlists, theme, ui>>

NextPresentation ==
    \/ ConnectionAvailable
    \/ Connected
    \/ ReceiverConnected
    \/ ConnectEvent
    \/ RunEffect
    \/ \E index \in {None} \cup {Some(i) : i \in PresentationCoords} : ChangeSlide(index)
    \/ ControllerMessage
    \/ SetupConnection
    \/ ReceiverMessage
    \/ \E key \in {"ArrowLeft", "ArrowRight", "a"} : ReceiverKeydown(key)
    \/ \E data \in {Binary, JsString("{", None)} : OtherMessage(data)

SpecPresentation == InitPresentation /\ [][NextPresentation]_vars

\* The browser runs every queued task and every handler whose event has
\* happened, and the receiver page finishes loading; the user need not act.
FairPresentation ==
    /\ SpecPresentation
    /\ WF_vars(ConnectionAvailable)
    /\ WF_vars(Connected)
    /\ WF_vars(ReceiverConnected)
    /\ WF_vars(ConnectEvent)
    /\ WF_vars(RunEffect)
    /\ WF_vars(ControllerMessage)
    /\ WF_vars(SetupConnection)
    /\ WF_vars(ReceiverMessage)

----------------------------------------------------------------------------
\* The screen wake lock: one WakeLockGuard, the requests it has in flight and
\* the sentinels the browser has handed out.  Here `last` holds the guard, the
\* document's visibility and the sentinels; sentinel k is the k-th obtained.

\* At most MaxRequests requests are started, the initial one included.
MaxRequests == 3

\* WakeLockGuard::new: the guard stores no sentinel, the initial request is in
\* flight and the visibilitychange listener is registered.  Of the pending
\* requests, refused counts those made by a hidden document, which the
\* browser rejects.
InitWakeLock ==
    /\ songs = << >>
    /\ playlists = << >>
    /\ theme = DefaultTheme
    /\ NoUi
    /\ last \in {[op |-> "wakelock", visible |-> visible, started |-> 1, pending |-> 1,
                  refused |-> IF visible THEN 0 ELSE 1,
                  sentinel |-> None, released |-> << >>, releasing |-> {},
                  listening |-> TRUE, dropped |-> FALSE] : visible \in BOOLEAN}

\* Drop for WakeLockGuard, run when the last Rc is dropped: the listener's
\* clone is gone and no request_and_save future holds one.
DropGuard(guard) ==
    IF guard.listening \/ guard.pending > 0 \/ guard.dropped THEN guard
    ELSE [guard EXCEPT !.dropped = TRUE,
                       !.sentinel = None,
                       !.releasing = IF /\ guard.sentinel # None
                                        /\ ~guard.released[guard.sentinel.val]
                                     THEN @ \cup {guard.sentinel.val} ELSE @]

\* The visibilitychange listener: a request starts when the document became
\* visible.  The browser releases every wake lock of a document that is hidden.
VisibilityChange ==
    /\ ~last.visible => last.started < MaxRequests \/ ~last.listening
    /\ last' = IF last.visible
               THEN [last EXCEPT !.visible = FALSE,
                                 !.released = [k \in DOMAIN @ |-> TRUE]]
               ELSE IF last.listening
               THEN [last EXCEPT !.visible = TRUE, !.started = @ + 1, !.pending = @ + 1]
               ELSE [last EXCEPT !.visible = TRUE]
    /\ UNCHANGED <<songs, playlists, theme, ui>>

\* request_and_save after request() gave a sentinel: the lock is granted to a
\* visible document.  The future then drops its Rc.
RequestResolves ==
    /\ last.pending > last.refused
    /\ last.visible
    /\ last' = DropGuard([last EXCEPT !.pending = @ - 1,
                                      !.released = Append(@, FALSE),
                                      !.sentinel = Some(Len(last.released) + 1)])
    /\ UNCHANGED <<songs, playlists, theme, ui>>

\* request_and_save after request() failed (the document is hidden, or the
\* lock is refused).
RequestRejects ==
    /\ last.pending > 0
    /\ \E refused \in {last.refused, last.refused - 1} :
           /\ refused >= 0
           /\ refused < last.pending
           /\ last' = DropGuard([last EXCEPT !.pending = @ - 1, !.refused = refused])
    /\ UNCHANGED <<songs, playlists, theme, ui>>

\* The browser releases a sentinel on its own.
BrowserReleases(k) ==
    /\ k \in DOMAIN last.released
    /\ ~last.released[k]
    /\ last' = [last EXCEPT !.released[k] = TRUE]
    /\ UNCHANGED <<songs, playlists, theme, ui>>

\* The owner of the guard is cleaned up: the listener is removed and the
\* owner's Rc is dropped.
Dispose ==
    /\ last.listening
    /\ last' = DropGuard([last EXCEPT !.listening = FALSE])
    /\ UNCHANGED <<songs, playlists, theme, ui>>

\* release_sentinel
ReleaseSentinel(k) ==
    /\ k \in last.releasing
    /\ last' = [last EXCEPT !.releasing = @ \ {k}, !.released[k] = TRUE]
    /\ UNCHANGED <<songs, playlists, theme, ui>>

NextWakeLock ==
    \/ VisibilityChange
    \/ RequestResolves
    \/ RequestRejects
    \/ \E k \in 1..MaxRequests : BrowserReleases(k)
    \/ Dispose
    \/ \E k \in 1..MaxRequests : ReleaseSentinel(k)

SpecWakeLock == InitWakeLock /\ [][NextWakeLock]_vars

----------------------------------------------------------------------------
\* The lyrics of an ABC tune (lyricutils/src/abc.rs): the body of the first
\* tune is a sequence of lines, a lyric line carrying the string that
\* lyric_line_to_string makes of it and a stylesheet directive its text.

\* A tune body has at most MaxBodyLen lines.
MaxBodyLen == 4

Music == [type |-> "Music"]
Lyric(text) == [type |-> "Lyric", text |-> text]
StylesheetDirective(directive) == [type |-> "StylesheetDirective", text |-> directive]

\* str::starts_with
starts_with(text, prefix) ==
    Len(text) >= Len(prefix) /\ SubSeq(text, 1, Len(prefix)) = prefix

\* directive.replace("\\t", ""): every backslash followed by t is removed.
RECURSIVE replace_backslash_t(_)
replace_backslash_t(text) ==
    IF text = << >> THEN << >>
    ELSE IF Len(text) >= 2 /\ text[1] = "\\" /\ text[2] = "t"
    THEN replace_backslash_t(SubSeq(text, 3, Len(text)))
    ELSE <<text[1]>> \o replace_backslash_t(Tail(text))

\* verse_number_regex.replace(line, ""): a leading ^[1-9][0-9]?\. is removed.
verse_number_regex_replace(line) ==
    LET nonzero == {DecimalDigits[d] : d \in 2..10}
        digit == {DecimalDigits[d] : d \in 1..10}
    IN IF Len(line) >= 2 /\ line[1] \in nonzero /\ line[2] = "."
       THEN SubSeq(line, 3, Len(line))
       ELSE IF Len(line) >= 3 /\ line[1] \in nonzero /\ line[2] \in digit /\ line[3] = "."
       THEN SubSeq(line, 4, Len(line))
       ELSE line

\* The loop over body.lines: the verses collected so far, the index of the
\* verse the next lyric line belongs to and whether a text block is open.
RECURSIVE ReadBody(_, _, _, _, _)
ReadBody(lines, k, verses, verse, stylesheettext) ==
    IF k > Len(lines) THEN Ok(verses)
    ELSE LET line == lines[k]
         IN CASE line.type = "Music" -> ReadBody(lines, k + 1, verses, 0, stylesheettext)
              [] line.type = "Lyric" ->
                     LET grown == IF Len(verses) < verse + 1
                                  THEN Append(verses, << >>) ELSE verses
                     IN IF verse + 1 > Len(grown) THEN Panic
                        ELSE ReadBody(lines, k + 1,
                                      [grown EXCEPT ![verse + 1] = Append(@, line.text)],
                                      verse + 1, stylesheettext)
              [] line.type = "StylesheetDirective" ->
                     IF starts_with(line.text, <<"b", "e", "g", "i", "n", "t", "e", "x", "t">>)
                     THEN ReadBody(lines, k + 1, Append(verses, << >>), verse, TRUE)
                     ELSE IF starts_with(line.text, <<"e", "n", "d", "t", "e", "x", "t">>)
                     THEN ReadBody(lines, k + 1, verses, verse, FALSE)
                     ELSE IF ~stylesheettext
                     THEN ReadBody(lines, k + 1, verses, verse, stylesheettext)
                     ELSE IF Trim(line.text) = << >>
                     THEN ReadBody(lines, k + 1, Append(verses, << >>), verse, stylesheettext)
                     ELSE IF verses = << >> THEN Panic
                     ELSE ReadBody(lines, k + 1,
                                   [verses EXCEPT ![Len(verses)] =
                                        Append(@, replace_backslash_t(Trim(line.text)))],
                                   verse, stylesheettext)
              [] OTHER -> ReadBody(lines, k + 1, verses, verse, stylesheettext)

\* lines_to_open_lyrics: the lines that are not empty, separated by Br.
RECURSIVE lines_to_open_lyrics_contents(_, _, _)
lines_to_open_lyrics_contents(verse_lyrics, k, contents) ==
    IF k > Len(verse_lyrics) THEN contents
    ELSE IF verse_lyrics[k] = << >>
    THEN lines_to_open_lyrics_contents(verse_lyrics, k + 1, contents)
    ELSE lines_to_open_lyrics_contents(verse_lyrics, k + 1,
             (IF contents # << >> THEN Append(contents, Br) ELSE contents)
                 \o <<Text(verse_lyrics[k])>>)

lines_to_open_lyrics(verse_lyrics) ==
    Lines(None, None, lines_to_open_lyrics_contents(verse_lyrics, 1, << >>))

make_verse(n, lines) == Verse(n, <<lines_to_open_lyrics(lines)>>)

\* The chorus split: the first verse cut to the length of the longest later
\* verse, and the verse "c" made of what was cut off.
SplitChorus(verses) ==
    IF Len(verses) < 2 THEN [verses |-> verses, chorus |-> None]
    ELSE LET rest_max_line_count == Max({Len(verses[i]) : i \in 2..Len(verses)})
         IN IF Len(verses[1]) > rest_max_line_count
            THEN [verses |-> [verses EXCEPT ![1] = SubSeq(@, 1, rest_max_line_count)],
                  chorus |-> Some(make_verse(<<"c">>,
                                 SubSeq(verses[1], rest_max_line_count + 1, Len(verses[1]))))]
            ELSE [verses |-> verses, chorus |-> None]

\* The numbered verses; verse[0] panics on a verse without lines.
NumberedVerses(verses) ==
    IF \E i \in 1..Len(verses) : verses[i] = << >> THEN Panic
    ELSE Ok([i \in 1..Len(verses) |->
                make_verse(<<"v">> \o fmt_int(i),
                           [verses[i] EXCEPT ![1] = verse_number_regex_replace(@)])])

\* tunebook_to_open_lyrics from `if let Some(body)` on: song.lyrics.lyrics.
tunebook_body_to_lyrics(body) ==
    LET read == ReadBody(body, 1, << >>, 0, FALSE)
    IN IF read.kind = "Panic" THEN Panic
       ELSE LET split == SplitChorus(read.val)
                lyrics == NumberedVerses(split.verses)
            IN IF lyrics.kind = "Panic" THEN Panic
               ELSE IF split.chorus = None THEN lyrics
               ELSE Ok(<<lyrics.val[1], split.chorus.val>> \o Tail(lyrics.val))

\* Music lines, lyric lines (one with a verse number, one empty) and the
\* directives of a text block (one blank, one with an escaped tab).
BodyLines ==
    {Music, Lyric(<<"a">>), Lyric(<<"2", ".", "b">>), Lyric(<< >>),
     StylesheetDirective(<<"b", "e", "g", "i", "n", "t", "e", "x", "t">>),
     StylesheetDirective(<<"e", "n", "d", "t", "e", "x", "t">>),
     StylesheetDirective(<<" ">>),
     StylesheetDirective(<<"\\", "t", "x", " ">>)}

\* tunebook_to_open_lyrics on a tune with the body given, with the verses its
\* loop collects.
CallTunebookToOpenLyrics(body) ==
    /\ last.op = "none"
    /\ last' = [op |-> "tunebook_to_open_lyrics", body |-> body,
                verses |-> ReadBody(body, 1, << >>, 0, FALSE),
                ret |-> tunebook_body_to_lyrics(body)]
    /\ UNCHANGED <<songs, playlists, theme, ui>>

NextAbc ==
    \E body \in SeqsUpTo(BodyLines, MaxBodyLen) : CallTunebookToOpenLyrics(body)

SpecAbc == InitPure /\ [][NextAbc]_vars

----------------------------------------------------------------------------
\* Properties of the expansion of one song (SpecSong).

\* The song of the catalog that the last call was about.
TheSong == songs[0]

\* Sum of f[1] .. f[n].
RECURSIVE SumTo(_, _)
SumTo(f, n) == IF n = 0 THEN 0 ELSE f[n] + SumTo(f, n - 1)

\* Pages one visit of an entry shows: a verse one per Lines, an instrumental one.
PageCount(lyric_entry) ==
    IF lyric_entry.type = "Verse" THEN Len(lyric_entry.lines) ELSE 1

\* The lowest 1-based position of an entry named token, 0 if there is none.
FirstNamed(lyrics, token) ==
    IF \E i \in 1..Len(lyrics) : lyrics[i].name = token
    THEN CHOOSE i \in 1..Len(lyrics) :
            /\ lyrics[i].name = token
            /\ \A j \in 1..(i - 1) : lyrics[j].name /= token
    ELSE 0

\* The 1-based positions of the entries a song visits, in visit order.
VisitOrder(song) ==
    IF song.verse_order.kind = "None"
    THEN [i \in 1..Len(song.lyrics) |-> i]
    ELSE LET tokens == Split(song.verse_order.val)
         IN SelectSeq([k \in 1..Len(tokens) |-> FirstNamed(song.lyrics, tokens[k])],
                      LAMBDA i : i > 0)

\* <<lyric_entry_index, lines_index>> of every page of the visits from v on.
RECURSIVE VisitPages(_, _, _)
VisitPages(song, visits, v) ==
    IF v > Len(visits) THEN << >>
    ELSE [k \in 1..PageCount(song.lyrics[visits[v]]) |-> <<visits[v] - 1, k - 1>>]
         \o VisitPages(song, visits, v + 1)

\* C1: with every Song entry referencing a stored song, slide(idx) is Some(s)
\* exactly when the pair (idx, s) is listed by slides(idx.playlist_id), with the
\* same song_id, lyric_entry_index, lines_index and last_page: a resolved
\* coordinate is listed with that slide, an unresolved one is not listed, and
\* every listed pair resolves to its slide.
AddressingConsistency ==
    RefIntegrity =>
        /\ last.op = "slide" =>
              LET all == slides(songs, playlists, last.index.playlist_id)
              IN /\ all.kind = "Ok"
                 /\ IF last.ret.kind = "Some"
                    THEN \E k \in 1..Len(all.val) :
                            all.val[k] = <<last.index, last.ret.val>>
                    ELSE /\ last.ret.kind = "None"
                         /\ \A k \in 1..Len(all.val) : all.val[k][1] /= last.index
        /\ last.op = "slides" =>
              /\ last.ret.kind = "Ok"
              /\ \A k \in 1..Len(last.ret.val) :
                    /\ last.ret.val[k][1].playlist_id = last.playlist_id
                    /\ slide(songs, playlists, last.ret.val[k][1])
                          = Some(last.ret.val[k][2])

\* slide resolved the second visit of a repeated verse-order token.
AddressingWitness ==
    /\ last.op = "slide"
    /\ last.index = SlideIndex(1, 1, 2)
    /\ TheSong.verse_order = Some(<<"a", " ", "a">>)
    /\ last.ret = Some(Lyrics(0, 0, 0, TRUE))

\* C2: the expansion of a song with at least one lyric entry holds exactly one
\* Lyrics slide with last_page = TRUE, and it is the last element.
LastPageUniqueness ==
    (/\ last.op = "slides_for_song"
     /\ last.ret.kind = "Ok"
     /\ Len(songs[last.song_id].lyrics) >= 1)
        => LET sl == last.ret.val
               marked == {k \in 1..Len(sl) : sl[k].type = "Lyrics" /\ sl[k].last_page}
           IN marked = {Len(sl)}

\* C3: no slide before the last one of an expansion has last_page = TRUE, and
\* a slide that State::slide returns with last_page = TRUE is the final page
\* of its entry (the next page index resolves to nothing).
LastPageOnlyAtEnd ==
    /\ (last.op = "slides_for_song" /\ last.ret.kind = "Ok") =>
          \A k \in 1..(Len(last.ret.val) - 1) :
              ~(last.ret.val[k].type = "Lyrics" /\ last.ret.val[k].last_page)
    /\ (/\ last.op = "slide"
        /\ last.ret.kind = "Some"
        /\ last.ret.val.type = "Lyrics"
        /\ last.ret.val.last_page) =>
          slide(songs, playlists,
                [last.index EXCEPT !.page_index = @ + 1]) = None

\* The verse order "a a" revisits the first of two stored entries: only the
\* second visit carries last_page.
LastPageRevisitWitness ==
    /\ last.op = "slides_for_song"
    /\ last.song_id = 0
    /\ TheSong.verse_order = Some(<<"a", " ", "a">>)
    /\ Len(TheSong.lyrics) = 2
    /\ TheSong.lyrics[2].name = <<"a", "a">>
    /\ last.ret = Ok(<<SongStart(0), Lyrics(0, 0, 0, FALSE), Lyrics(0, 0, 0, TRUE)>>)

\* C4: without verse order the expansion has 1 + (lines of every verse) +
\* (number of instrumental entries) slides; with a verse order it has 1 + the
\* page counts of the first entry named by each matching token, and exactly
\* the SongStart slide when no token matches.
ExpansionCount ==
    (last.op = "slides_for_song" /\ last.ret.kind = "Ok") =>
        LET song == songs[last.song_id]
            lyrics == song.lyrics
            tokens == Split(song.verse_order.val)
        IN IF song.verse_order.kind = "None"
           THEN Len(last.ret.val)
                   = 1 + SumTo([i \in 1..Len(lyrics) |-> PageCount(lyrics[i])],
                               Len(lyrics))
           ELSE /\ Len(last.ret.val)
                      = 1 + SumTo([k \in 1..Len(tokens) |->
                                      IF FirstNamed(lyrics, tokens[k]) = 0 THEN 0
                                      ELSE PageCount(lyrics[FirstNamed(lyrics, tokens[k])])],
                                  Len(tokens))
                /\ (\A k \in 1..Len(tokens) : FirstNamed(lyrics, tokens[k]) = 0)
                      => last.ret.val = <<SongStart(last.song_id)>>

\* A two-line verse and an instrumental entry with two notation lines expand
\* to 1 + 2 + 1 slides.
ExpansionCountWitness ==
    /\ last.op = "slides_for_song"
    /\ last.song_id = 0
    /\ TheSong.verse_order = None
    /\ TheSong.lyrics = <<Verse(<<"a">>, <<"l", "l">>), Instrument(<<"a", "a">>, <<"n", "n">>)>>
    /\ Len(last.ret.val) = 4

\* C5: the expansion starts with SongStart; the Lyrics slides that follow are
\* the pages of the visited entries in visit order: one visit per verse-order
\* token that names an entry (the lowest-index entry of that name, once per
\* occurrence of the token, unmatched tokens skipped), or every entry once in
\* stored order when there is no verse order.
VisitOrderFollowed ==
    (last.op = "slides_for_song" /\ last.ret.kind = "Ok") =>
        LET song == songs[last.song_id]
            sl == last.ret.val
            pages == VisitPages(song, VisitOrder(song), 1)
        IN /\ Len(sl) = 1 + Len(pages)
           /\ sl[1] = SongStart(last.song_id)
           /\ \A k \in 1..Len(pages) :
                 /\ sl[k + 1].type = "Lyrics"
                 /\ sl[k + 1].song_id = last.song_id
                 /\ <<sl[k + 1].lyric_entry_index, sl[k + 1].lines_index>> = pages[k]

\* An unmatched token, then a token naming the second of two entries called
\* "a" apart from the first: the first one is expanded.
VisitOrderWitness ==
    /\ last.op = "slides_for_song"
    /\ last.song_id = 0
    /\ TheSong.verse_order = Some(<<"a", "a", " ", "a">>)
    /\ TheSong.lyrics = <<Verse(<<"a">>, <<"l">>), Verse(<<"a">>, <<"l", "l">>)>>
    /\ last.ret = Ok(<<SongStart(0), Lyrics(0, 0, 0, TRUE)>>)

----------------------------------------------------------------------------
\* Properties of the State operations on any stored state (SpecState).

\* The playlist entry a coordinate addresses, None if there is none.
EntryAt(index) ==
    IF /\ index.playlist_id \in DOMAIN playlists
       /\ index.entry_index < Len(playlists[index.playlist_id].entries)
    THEN Some(playlists[index.playlist_id].entries[index.entry_index + 1])
    ELSE None

Dangling(entry) == entry.type = "Song" /\ entry.song_id \notin DOMAIN songs

\* The number of lyric pages of a song.
LyricPages(song) == Len(VisitPages(song, VisitOrder(song), 1))

\* C7: slide returns None, and does not fail, when the addressed entry is a
\* Song entry whose song is not in the catalog; slides does not fail for a
\* playlist holding such an entry.
DanglingIsNone ==
    /\ (/\ last.op = "slide"
        /\ EntryAt(last.index).kind = "Some"
        /\ Dangling(EntryAt(last.index).val)) => last.ret = None
    /\ (/\ last.op = "slides"
        /\ last.playlist_id \in DOMAIN playlists
        /\ \E k \in 1..Len(playlists[last.playlist_id].entries) :
              Dangling(playlists[last.playlist_id].entries[k]))
          => last.ret.kind = "Ok"

\* C8: slides returns the empty list for an unknown playlist id and for a
\* playlist without entries; slide returns None for an unknown playlist id, an
\* entry index past the entries, a text entry with a page index other than 0,
\* and a song entry (of a stored song) with a page index above its number of
\* lyric pages.
NotFoundIsAbsent ==
    /\ (/\ last.op = "slides"
        /\ \/ last.playlist_id \notin DOMAIN playlists
           \/ playlists[last.playlist_id].entries = << >>)
          => last.ret = Ok(<< >>)
    /\ last.op = "slide" =>
          LET entry == EntryAt(last.index)
          IN /\ entry.kind = "None" => last.ret = None
             /\ (/\ entry.kind = "Some"
                 /\ entry.val.type = "Text"
                 /\ last.index.page_index /= 0) => last.ret = None
             /\ (/\ entry.kind = "Some"
                 /\ entry.val.type = "Song"
                 /\ entry.val.song_id \in DOMAIN songs
                 /\ last.index.page_index > LyricPages(songs[entry.val.song_id]))
                   => last.ret = None

\* The page after the two lyric pages of a stored song resolved to None.
NotFoundWitness ==
    /\ last.op = "slide"
    /\ EntryAt(last.index).kind = "Some"
    /\ EntryAt(last.index).val.type = "Song"
    /\ EntryAt(last.index).val.song_id \in DOMAIN songs
    /\ last.index.page_index = 3
    /\ LyricPages(songs[EntryAt(last.index).val.song_id]) = 2
    /\ last.ret = None

\* C9: after remove_song(id), id is not a key of songs, no entry of any
\* playlist is Song{id}, and every entry that referenced id is the text entry
\* "Song removed", whether or not id was stored or referenced.
RemovalSafety ==
    last.op = "remove_song" =>
        /\ last.id \notin DOMAIN songs
        /\ DOMAIN playlists = DOMAIN last.pre.playlists
        /\ \A p \in DOMAIN playlists :
              /\ Len(playlists[p].entries) = Len(last.pre.playlists[p].entries)
              /\ \A k \in 1..Len(playlists[p].entries) :
                    /\ playlists[p].entries[k] /= SongEntry(last.id)
                    /\ last.pre.playlists[p].entries[k] = SongEntry(last.id)
                          => playlists[p].entries[k] = TextEntry("Song removed")

\* A stored song referenced from two playlists was removed.
RemovalWitness ==
    /\ last.op = "remove_song"
    /\ last.id \in DOMAIN last.pre.songs
    /\ \A p \in StoredIds :
          /\ p \in DOMAIN last.pre.playlists
          /\ \E k \in 1..Len(last.pre.playlists[p].entries) :
                last.pre.playlists[p].entries[k] = SongEntry(last.id)

\* C10: add_song(s) followed by add_song of a structurally equal song returns
\* the same id both times, and the second call leaves the catalog unchanged.
DedupIdempotence ==
    last.op = "add_song_twice" =>
        /\ last.second = last.first
        /\ songs = last.mid
        /\ songs[last.first] = last.song

\* The first of the two calls inserted the song under a new id.
DedupWitness ==
    /\ last.op = "add_song_twice"
    /\ last.pre.songs /= << >>
    /\ last.first \notin DOMAIN last.pre.songs
    /\ last.second = last.first

\* The id a map hands out next: its largest key plus one, 0 if it is empty.
Allocated(map) == IF DOMAIN map = {} THEN 0 ELSE Max(DOMAIN map) + 1

\* new is old with one more key, id.
Extends(new, old, id) ==
    /\ id \notin DOMAIN old
    /\ DOMAIN new = DOMAIN old \cup {id}
    /\ \A i \in DOMAIN old : new[i] = old[i]

\* C12: when add_song inserts (no stored song is structurally equal), and
\* whenever add_playlist is called, the returned id is the largest key before
\* the call plus one, or 0 for an empty map; it was not a key before, and every
\* entry present before is still there under the same id with the same value.
IdAllocation ==
    /\ (/\ last.op = "add_song_twice"
        /\ \A i \in DOMAIN last.pre.songs : last.pre.songs[i] /= last.song)
          => /\ last.first = Allocated(last.pre.songs)
             /\ Extends(last.mid, last.pre.songs, last.first)
             /\ last.mid[last.first] = last.song
    /\ last.op = "add_playlist"
          => /\ last.ret = Allocated(last.pre.playlists)
             /\ Extends(playlists, last.pre.playlists, last.ret)
             /\ playlists[last.ret] = last.playlist

\* A playlist was added to playlists whose only key is 1: the new id is 2,
\* not the unused 0.
IdAllocationWitness ==
    /\ last.op = "add_playlist"
    /\ DOMAIN last.pre.playlists = {1}
    /\ last.ret = 2
    /\ playlists[1] = last.pre.playlists[1]

\* The entries of the reordered playlist before and after the call.
MovedBefore == last.pre.playlists[last.playlist_id].entries
MovedAfter == playlists[last.playlist_id].entries

\* C13: for an entry_index inside the playlist, move_entry_index returns false
\* and leaves the entries unchanged when entry_index + offset is negative or
\* not below the length; otherwise it returns true and exchanges the entries
\* at entry_index and entry_index + offset, the length and every other entry
\* unchanged.
ReorderBounds ==
    (last.op = "move_entry_index" /\ last.entry_index < Len(MovedBefore)) =>
        LET new_index == last.entry_index + last.offset
        IN IF new_index < 0 \/ new_index >= Len(MovedBefore)
           THEN last.ret = Ok(FALSE) /\ playlists = last.pre.playlists
           ELSE /\ last.ret = Ok(TRUE)
                /\ Len(MovedAfter) = Len(MovedBefore)
                /\ MovedAfter[last.entry_index + 1] = MovedBefore[new_index + 1]
                /\ MovedAfter[new_index + 1] = MovedBefore[last.entry_index + 1]
                /\ \A k \in 1..Len(MovedBefore) :
                      k \notin {last.entry_index + 1, new_index + 1}
                          => MovedAfter[k] = MovedBefore[k]
                /\ \A p \in DOMAIN playlists \ {last.playlist_id} :
                      playlists[p] = last.pre.playlists[p]

\* Two different entries changed places.
ReorderWitness ==
    /\ last.op = "move_entry_index"
    /\ last.ret = Ok(TRUE)
    /\ MovedAfter /= MovedBefore
    /\ MovedAfter[last.entry_index + 1] = MovedBefore[last.entry_index + last.offset + 1]

\* C14: when entry_index is not below the length, move_entry_index returns
\* false, changes nothing and does not fail, also when entry_index + offset
\* falls inside the playlist.
ReorderOutOfRangeIsNoOp ==
    (last.op = "move_entry_index" /\ last.entry_index >= Len(MovedBefore)) =>
        last.ret = Ok(FALSE) /\ playlists = last.pre.playlists

\* Every Song entry of the playlists p references a key of the catalog s.
Intact(s, p) ==
    \A i \in DOMAIN p :
        \A k \in 1..Len(p[i].entries) :
            p[i].entries[k].type = "Song" => p[i].entries[k].song_id \in DOMAIN s

\* C15: merging, into a state without songs and playlists, a state with one
\* song X under any id and one playlist with a Song entry for X gives exactly
\* one song, equal to X, and exactly one playlist, whose entry carries the id
\* add_song gave X in the receiving state.
MergeRemapsIds ==
    (/\ last.op = "merge_twice"
     /\ last.pre.songs = << >>
     /\ last.pre.playlists = << >>
     /\ Cardinality(DOMAIN last.other.songs) = 1
     /\ Cardinality(DOMAIN last.other.playlists) = 1
     /\ \A i \in DOMAIN last.other.songs, p \in DOMAIN last.other.playlists :
           last.other.playlists[p].entries = <<SongEntry(i)>>)
      => /\ Cardinality(DOMAIN last.once.songs) = 1
         /\ Cardinality(DOMAIN last.once.playlists) = 1
         /\ \A i \in DOMAIN last.other.songs, ours \in DOMAIN last.once.songs,
               p \in DOMAIN last.once.playlists :
                 /\ last.once.songs[ours] = last.other.songs[i]
                 /\ ours = 0
                 /\ last.once.playlists[p].entries = <<SongEntry(ours)>>

\* The song was stored under id 2 in the merged state and is played as song 0.
MergeRemapsWitness ==
    /\ last.op = "merge_twice"
    /\ last.pre.songs = << >>
    /\ last.pre.playlists = << >>
    /\ DOMAIN last.other.songs = {2}
    /\ DOMAIN last.once.songs = {0}
    /\ last.once.playlists = (0 :> Playlist("Imported", <<SongEntry(0)>>))

\* C16: merging other into self twice in a row gives the same songs, the same
\* playlists and the same theme as merging it once.
RepeatedMergeAddsNothing ==
    last.op = "merge_twice" =>
        /\ songs = last.once.songs
        /\ playlists = last.once.playlists
        /\ theme = last.once.theme

\* The first merge added a song and a playlist; the second added nothing.
RepeatedMergeWitness ==
    /\ last.op = "merge_twice"
    /\ Cardinality(DOMAIN last.once.songs) > Cardinality(DOMAIN last.pre.songs)
    /\ Cardinality(DOMAIN last.once.playlists) > Cardinality(DOMAIN last.pre.playlists)
    /\ last.pre.playlists /= << >>
    /\ playlists = last.once.playlists

\* C17: if every Song entry of self references a song of self, the same holds
\* after merge(other) for every other; a Song entry of other whose id is not a
\* key of other.songs is stored as the text entry "Invalid song ID n".
MergeKeepsIntegrity ==
    (last.op = "merge_twice" /\ Intact(last.pre.songs, last.pre.playlists)) =>
        /\ Intact(last.once.songs, last.once.playlists)
        /\ \A p \in DOMAIN last.other.playlists :
              \E q \in DOMAIN last.once.playlists :
                 LET theirs == last.other.playlists[p].entries
                     ours == last.once.playlists[q].entries
                 IN /\ Len(ours) = Len(theirs)
                    /\ last.once.playlists[q].name = last.other.playlists[p].name
                    /\ \A k \in 1..Len(theirs) :
                          IF theirs[k].type = "Song"
                          THEN IF theirs[k].song_id \in DOMAIN last.other.songs
                               THEN /\ ours[k].type = "Song"
                                    /\ last.once.songs[ours[k].song_id]
                                          = last.other.songs[theirs[k].song_id]
                               ELSE ours[k] = TextEntry("Invalid song ID "
                                                        \o ToString(theirs[k].song_id))
                          ELSE ours[k] = theirs[k]

\* A playlist with a reference to the missing song 1 was merged into a state
\* that holds songs and an intact playlist.
MergeIntegrityWitness ==
    /\ last.op = "merge_twice"
    /\ Intact(last.pre.songs, last.pre.playlists)
    /\ last.pre.songs /= << >>
    /\ \E p \in DOMAIN last.pre.playlists, k \in 1..MaxEntries :
          /\ k <= Len(last.pre.playlists[p].entries)
          /\ last.pre.playlists[p].entries[k].type = "Song"
    /\ \E q \in DOMAIN last.once.playlists :
          last.once.playlists[q].entries = <<SongEntry(0), TextEntry("Invalid song ID 1")>>

----------------------------------------------------------------------------
\* Properties of the running application (Spec).

\* C6: in every state reached from the default state by the application's
\* operations, every Song entry of every playlist references an id that is a
\* key of songs.
ReferentialIntegrity ==
    \A p \in DOMAIN playlists :
        \A k \in 1..Len(playlists[p].entries) :
            LET entry == playlists[p].entries[k]
            IN entry.type = "Song" => entry.song_id \in DOMAIN songs

\* While the application runs, the playlist of the selected slide exists, the
\* selected entry is within it, and all its Song entries reference stored
\* songs: the states in which the Remove and Move buttons act.
SelectionOnIntactPlaylist ==
    (~crashed /\ current_slide.kind = "Some")
        => /\ current_slide.val.playlist_id \in DOMAIN playlists
           /\ LET entries == playlists[current_slide.val.playlist_id].entries
              IN /\ current_slide.val.entry_index < Len(entries)
                 /\ \A k \in 1..Len(entries) :
                        entries[k].type = "Song" => entries[k].song_id \in DOMAIN songs

----------------------------------------------------------------------------
\* Properties of the catalog under add_song, remove_song, merge and save_song
\* (SpecCatalog).

\* C11: in every state reached from a catalog without duplicates by add_song,
\* remove_song, merge and save_song, no two distinct ids of the catalog map to
\* structurally equal songs.
NoDuplicateStorage == NoDuplicates(songs)

----------------------------------------------------------------------------
\* Properties of the slide content formatter (SpecContent).

\* The formatter was applied to a Lyrics slide.
OnLyrics ==
    /\ last.op \in {"for_index", "for_slide"}
    /\ last.slide.kind = "Some"
    /\ last.slide.val.type = "Lyrics"

FormattedEntry == songs[0].lyrics[last.slide.val.lyric_entry_index + 1]

\* C18: for every Lyrics slide resolved from a state, the content has credit =
\* Some(authors string) if the slide's last_page is true and credit = None
\* otherwise.
CreditOnLastPage ==
    OnLyrics =>
        /\ last.ret.kind = "Some"
        /\ last.ret.val.credit = IF last.slide.val.last_page
                                 THEN Some(JoinAuthors(songs[0].authors))
                                 ELSE None

\* C19: on a Lyrics page of a Verse entry with at least one text line, the
\* first text line is prefixed with the entry name minus its first character
\* and ". " exactly when the name starts with "v" and lines_index = 0; no other
\* line is prefixed, and a part label comes first, without prefix.
VerseNumberPrefix ==
    (OnLyrics /\ FormattedEntry.type = "Verse") =>
        LET page == FormattedEntry.lines[last.slide.val.lines_index + 1]
            text == simplify_contents(page.contents)
            label == IF page.part.kind = "Some" THEN 1 ELSE 0
            numbered == /\ Head(FormattedEntry.name) = "v"
                        /\ last.slide.val.lines_index = 0
        IN text /= << >> =>
              /\ last.ret.kind = "Some"
              /\ Len(last.ret.val.lines) >= label + Len(text)
              /\ label = 1 =>
                    last.ret.val.lines[1].text = <<"(">> \o page.part.val \o <<")">>
              /\ last.ret.val.lines[label + 1].text =
                    IF numbered
                    THEN Tail(FormattedEntry.name) \o <<".", " ">> \o text[1]
                    ELSE text[1]
              /\ \A k \in 2..Len(text) : last.ret.val.lines[label + k].text = text[k]

\* The first page of verse v1, with a part label and two text lines: the
\* label, then "1. x", then "y".
VersePrefixWitness ==
    /\ OnLyrics
    /\ FormattedEntry = VerseV1
    /\ last.slide.val.lines_index = 0
    /\ last.ret.kind = "Some"
    /\ last.ret.val.lines = <<SlideLine(<<"(", "p", ")">>, TRUE),
                              SlideLine(<<"1", ".", " ", "x">>, FALSE),
                              SlideLine(<<"y">>, FALSE)>>

\* C20: for a SongStart slide, for_slide and for_index (page 0 of a Song
\* entry) yield a content whose title is the song's title.
TitleOnSongStart ==
    (/\ last.op \in {"for_index", "for_slide"}
     /\ last.slide.kind = "Some"
     /\ last.slide.val.type = "SongStart")
      => /\ last.ret.kind = "Some"
         /\ last.ret.val.title = Some(songs[0].title)

----------------------------------------------------------------------------
\* Properties of import (SpecImport).

\* C21: a failed import does not mutate State: whenever import_str returns an
\* error, for any format, the songs, playlists and theme are what they were
\* before the call.
ImportFailureKeepsState ==
    (last.op = "import_str" /\ last.ret.kind = "Err")
        => State(songs, playlists, theme) = last.pre

\* A JSON import of a text that is well formed in another format has failed
\* on a state that holds songs.
ImportFailureWitness ==
    /\ last.op = "import_str"
    /\ last.ret.kind = "Err"
    /\ last.format = "Json"
    /\ last.text.kind = "Xml"
    /\ last.pre.songs /= << >>

\* C22: every song in the catalog has at least one title.
EverySongHasATitle ==
    \A id \in DOMAIN songs : songs[id].titles /= << >>

----------------------------------------------------------------------------
\* Properties of the string form of SlideIndex (SpecIndex).

\* A part written as a non-negative integer: an optional + and then one or
\* more decimal digits.
IsNonNegativeInteger(part) ==
    LET digits == IF part /= << >> /\ part[1] = "+" THEN Tail(part) ELSE part
    IN /\ digits /= << >>
       /\ \A k \in 1..Len(digits) : \E d \in 1..10 : digits[k] = DecimalDigits[d]

\* The comma-separated parts of a string: its maximal runs without a comma,
\* the empty ones included.
PartsOf(s) ==
    {SubSeq(s, r[1], r[2]) : r \in
        {r \in (1..(Len(s) + 1)) \X (0..Len(s)) :
            /\ r[2] >= r[1] - 1
            /\ \A k \in r[1]..r[2] : s[k] /= ","
            /\ (r[1] = 1 \/ s[r[1] - 1] = ",")
            /\ (r[2] = Len(s) \/ s[r[2] + 1] = ",")}}

\* C23: parsing the Display form of a SlideIndex returns that SlideIndex; a
\* string that is not three comma-separated parts is rejected with
\* WrongNumberOfParts; a string of three parts one of which is not a
\* non-negative integer is rejected with a ParseInt error.
SlideIndexRoundTrip ==
    /\ last.op = "round_trip" => last.ret = Ok(last.index)
    /\ last.op = "from_str" =>
          IF Cardinality({k \in 1..Len(last.text) : last.text[k] = ","}) /= 2
          THEN last.ret = ParseSlideIndexError("WrongNumberOfParts")
          ELSE (\E part \in PartsOf(last.text) : ~IsNonNegativeInteger(part))
                   => /\ last.ret.kind = "Err"
                      /\ last.ret.error \in {"ParseInt(Empty)", "ParseInt(InvalidDigit)"}

\* The index (10, 0, 42) has been written and parsed back.
SlideIndexRoundTripWitness ==
    /\ last.op = "round_trip"
    /\ last.index = SlideIndex(10, 0, 42)
    /\ last.text = <<"1", "0", ",", "0", ",", "4", "2">>
    /\ last.ret.kind = "Ok"

----------------------------------------------------------------------------
\* Properties of the playlist's buttons and of remove and add (SpecHandlers).

\* The entries of a playlist without the entry at the 0-based index e.
Without(entries, e) ==
    SubSeq(entries, 1, e) \o SubSeq(entries, e + 2, Len(entries))

\* C24: when remove_from_playlist runs with a selected coordinate (P, e, p)
\* whose e is within the playlist, entry e is deleted; the selection becomes
\* None if the playlist is now empty, and otherwise (P, min(e, new_len - 1), 0),
\* whose entry index is below new_len and which State::slide resolves to Some.
RemoveKeepsSelectionValid ==
    (/\ last.op = "remove_from_playlist"
     /\ last.index.playlist_id \in DOMAIN last.pre.playlists
     /\ last.index.entry_index < Len(last.pre.playlists[last.index.playlist_id].entries))
        => LET P == last.index.playlist_id
               e == last.index.entry_index
               new_len == Len(playlists[P].entries)
           IN /\ ~crashed
              /\ playlists = [last.pre.playlists EXCEPT ![P].entries = Without(@, e)]
              /\ IF new_len = 0
                 THEN current_slide = None
                 ELSE /\ current_slide = Some(SlideIndex(P, Min({e, new_len - 1}), 0))
                      /\ current_slide.val.entry_index < new_len
                      /\ slide(songs, playlists, current_slide.val).kind = "Some"

\* The last of two entries has been removed while its second page was
\* selected, and the first one, a song, is selected now.
RemoveSelectionWitness ==
    /\ last.op = "remove_from_playlist"
    /\ last.index = SlideIndex(0, 1, 1)
    /\ Len(last.pre.playlists[0].entries) = 2
    /\ current_slide = Some(SlideIndex(0, 0, 0))
    /\ slide(songs, playlists, current_slide.val) = Some(SongStart(0))

\* C28: when move_in_playlist(offset) runs with a selected coordinate
\* (P, e, p) whose e is within the playlist, then if e + offset is in
\* [0, len) the entries at e and e + offset are exchanged and the selection
\* becomes (P, e + offset, p), which resolves to the same slide as before the
\* move; otherwise neither the playlist nor the selection changes.
MoveKeepsSelection ==
    (/\ last.op = "move_in_playlist"
     /\ last.index.playlist_id \in DOMAIN last.pre.playlists
     /\ last.index.entry_index < Len(last.pre.playlists[last.index.playlist_id].entries))
        => LET P == last.index.playlist_id
               e == last.index.entry_index
               old == last.pre.playlists[P].entries
               target == e + last.offset
           IN /\ ~crashed
              /\ IF target >= 0 /\ target < Len(old)
                 THEN /\ playlists = [last.pre.playlists EXCEPT ![P].entries =
                                          [old EXCEPT ![e + 1] = old[target + 1],
                                                      ![target + 1] = old[e + 1]]]
                      /\ current_slide = Some(SlideIndex(P, target, last.index.page_index))
                      /\ slide(songs, playlists, current_slide.val)
                             = slide(last.pre.songs, last.pre.playlists, last.index)
                 ELSE /\ playlists = last.pre.playlists
                      /\ current_slide = Some(last.index)

\* A song has been moved down past another entry while its first lyrics
\* page was selected.
MoveSelectionWitness ==
    /\ last.op = "move_in_playlist"
    /\ last.offset = 1
    /\ last.index = SlideIndex(0, 0, 1)
    /\ playlists /= last.pre.playlists
    /\ current_slide = Some(SlideIndex(0, 1, 1))
    /\ slide(songs, playlists, current_slide.val).kind = "Some"
    /\ slide(songs, playlists, current_slide.val).val.type = "Lyrics"

\* C29: once an id has been assigned to a song, add_song never returns that
\* id for a different song, also after remove_song has removed the original.
IdsNotRecycled ==
    (/\ last.op = "remove_then_add"
     /\ last.id \in DOMAIN last.pre.songs
     /\ last.song /= last.pre.songs[last.id])
        => last.ret /= last.id

----------------------------------------------------------------------------
\* Properties of State::slides and of coordinates across remove_song
\* (SpecState).

\* C25: slides(P), when it returns, lists coordinates in navigation order:
\* each carries playlist_id = P; they increase strictly in (entry_index,
\* page_index) order; every entry index of the playlist appears; the page
\* indices of one entry are 0 .. n - 1 without a gap; a Text entry contributes
\* the single coordinate with page_index 0.
SlidesInNavigationOrder ==
    (last.op = "slides" /\ last.ret.kind = "Ok")
        => LET P == last.playlist_id
               listed == [k \in 1..Len(last.ret.val) |-> last.ret.val[k][1]]
               entries == IF P \in DOMAIN playlists THEN playlists[P].entries ELSE << >>
               Of(e) == {k \in 1..Len(listed) : listed[k].entry_index = e}
           IN /\ \A k \in 1..Len(listed) : listed[k].playlist_id = P
              /\ \A k \in 1..(Len(listed) - 1) :
                     \/ listed[k].entry_index < listed[k + 1].entry_index
                     \/ /\ listed[k].entry_index = listed[k + 1].entry_index
                        /\ listed[k].page_index < listed[k + 1].page_index
              /\ \A e \in 0..(Len(entries) - 1) :
                     /\ Of(e) /= {}
                     /\ {listed[k].page_index : k \in Of(e)} = 0..(Cardinality(Of(e)) - 1)
                     /\ entries[e + 1].type = "Text"
                            => \E k \in Of(e) : Of(e) = {k} /\ listed[k].page_index = 0

\* slides has listed a playlist of a song with several pages followed by a
\* text.
SlidesOrderWitness ==
    /\ last.op = "slides"
    /\ last.ret.kind = "Ok"
    /\ last.playlist_id \in DOMAIN playlists
    /\ Len(playlists[last.playlist_id].entries) = 2
    /\ playlists[last.playlist_id].entries[1].type = "Song"
    /\ playlists[last.playlist_id].entries[2].type = "Text"
    /\ Len(last.ret.val) >= 4
    /\ last.ret.val[Len(last.ret.val)][1] = SlideIndex(last.playlist_id, 1, 0)

\* The coordinates that resolved to a slide of the removed song before the
\* last remove_song.
StaleCoords ==
    {index \in StateCoords :
        LET before == slide(last.pre.songs, last.pre.playlists, index)
        IN /\ before.kind = "Some"
           /\ before.val.type \in {"SongStart", "Lyrics"}
           /\ before.val.song_id = last.id}

\* C26: a coordinate that resolved to a slide of song id before
\* remove_song(id) resolves afterwards to Some(Text("Song removed")) when its
\* page_index is 0 and to None otherwise; SlideContent::for_index does not
\* fail on it, and in the None case the displayed content is the default one.
StaleCoordinateDegrades ==
    last.op = "remove_song"
        => \A index \in StaleCoords :
               LET state == State(songs, playlists, theme)
               IN /\ slide(songs, playlists, index) =
                         IF index.page_index = 0
                         THEN Some(TextSlide("Song removed"))
                         ELSE None
                  /\ for_index(state, index).kind /= "Panic"
                  /\ index.page_index > 0 =>
                         current_slide_content(state, Some(index))
                             = Ok(SlideContent(None, << >>, None, DefaultTheme))

\* A song has been removed of which both the start page and a lyrics page
\* were addressed.
StaleCoordinateWitness ==
    /\ last.op = "remove_song"
    /\ \E first, page \in StaleCoords :
          /\ first.page_index = 0
          /\ page.page_index > 0
          /\ slide(last.pre.songs, last.pre.playlists, page).val.type = "Lyrics"
          /\ slide(songs, playlists, page) = None

----------------------------------------------------------------------------
\* Properties of the selection in the running application (Spec).

\* C27: the selected slide always belongs to the selected playlist:
\* current_slide is None or its playlist_id equals current_playlist.
SelectionInSelectedPlaylist ==
    current_slide.kind = "Some"
        => current_playlist = Some(current_slide.val.playlist_id)

----------------------------------------------------------------------------
\* Properties of the authors field (SpecAuthors).

\* C30: saving an unedited song's authors changes nothing:
\* set_authors_from_string(authors_as_string(song)) gives the same number of
\* authors with the same names and the same role types, also for a song
\* with no authors and for authors without a role type.
UneditedAuthorsUnchanged ==
    last.op = "save_authors"
        => /\ Len(last.ret) = Len(last.authors)
           /\ \A k \in 1..Len(last.authors) :
                  /\ last.ret[k].name = last.authors[k].name
                  /\ last.ret[k].author_type = last.authors[k].author_type

----------------------------------------------------------------------------
\* Properties of the lyrics field (SpecLyricsText).

\* C31: lyrics text round trip: with t = lyrics_as_text(song), reading t with
\* set_lyrics_from_text and writing it again gives exactly t, and the verse
\* names, their order, the number of pages per verse and the lines of every
\* page are those of the Verse entries of the original song.
LyricsTextRoundTrip ==
    last.op = "lyrics_round_trip"
        => LET verses == SelectSeq(last.lyrics, LAMBDA entry : entry.type = "Verse")
           IN /\ last.again = last.text
              /\ Len(last.parsed) = Len(verses)
              /\ \A k \in 1..Len(verses) :
                     /\ last.parsed[k].name = verses[k].name
                     /\ Len(last.parsed[k].lines) = Len(verses[k].lines)
                     /\ \A page \in 1..Len(verses[k].lines) :
                            simplify_contents(last.parsed[k].lines[page].contents)
                                = simplify_contents(verses[k].lines[page].contents)

----------------------------------------------------------------------------
\* Properties of resolved slides against the formatter (SpecContent, and
\* SpecSong for the ranges alone).

\* The Lyrics slide s addresses a lyric entry of its song in the catalog and,
\* in a Verse, one of its Lines; in an Instrument its lines_index is 0.
SlideInRange(catalog, s) ==
    s.type = "Lyrics"
        => /\ s.song_id \in DOMAIN catalog
           /\ s.lyric_entry_index < Len(catalog[s.song_id].lyrics)
           /\ LET lyric_entry == catalog[s.song_id].lyrics[s.lyric_entry_index + 1]
              IN IF lyric_entry.type = "Verse"
                 THEN s.lines_index < Len(lyric_entry.lines)
                 ELSE s.lines_index = 0

\* The slides that slides_for_song, slides and slide return in this state,
\* slide for the coordinates of the given set.
ResolvedSlides(coords) ==
    UNION {LET all == slides_for_song(songs, id)
           IN IF all.kind = "Ok" THEN {all.val[k] : k \in 1..Len(all.val)} ELSE {} :
           id \in DOMAIN songs}
    \cup UNION {LET all == slides(songs, playlists, p)
                IN IF all.kind = "Ok" THEN {all.val[k][2] : k \in 1..Len(all.val)} ELSE {} :
                p \in DOMAIN playlists}
    \cup UNION {LET one == slide(songs, playlists, index)
                IN IF one.kind = "Some" THEN {one.val} ELSE {} :
                index \in coords}

\* C32: every Lyrics slide returned by slides_for_song, slides or slide has
\* lyric_entry_index below the number of lyric entries of its song, and
\* lines_index below the number of Lines of a Verse or 0 for an Instrument;
\* formatting it against the same state does not index out of range.
ResolvedSlidesInRange ==
    \A s \in ResolvedSlides(ContentCoords) :
        /\ SlideInRange(songs, s)
        /\ s.type = "Lyrics" => for_slide(State(songs, playlists, theme), s).kind = "Some"

\* The page of an instrumental entry that is not the first entry has been
\* resolved from a coordinate and formatted.
ResolvedSlidesWitness ==
    /\ last.op = "for_index"
    /\ last.slide.kind = "Some"
    /\ last.slide.val.type = "Lyrics"
    /\ last.slide.val.lyric_entry_index > 0
    /\ songs[0].lyrics[last.slide.val.lyric_entry_index + 1].type = "Instrument"
    /\ last.slide.val \in ResolvedSlides(ContentCoords)
    /\ last.ret.kind = "Some"

\* The ranges alone, for every song of SpecSong: verses without Lines, verse
\* orders with repeated and unknown names, entries sharing a name.
SongSlidesInRange ==
    \A s \in ResolvedSlides(SongCoords) : SlideInRange(songs, s)

----------------------------------------------------------------------------
\* Frame of State::merge (SpecState).

\* Every song and every playlist of the state before is in the state after
\* under the same id, unchanged.
Keeps(before, after) ==
    /\ \A id \in DOMAIN before.songs :
           id \in DOMAIN after.songs /\ after.songs[id] = before.songs[id]
    /\ \A id \in DOMAIN before.playlists :
           id \in DOMAIN after.playlists /\ after.playlists[id] = before.playlists[id]

\* C33: merge only adds: every (id, song) and (id, playlist) pair held before
\* merge(other) is held unchanged after it, so that what is new is stored
\* under ids that were not in use, and the theme is replaced by other's.
MergeOnlyAdds ==
    last.op = "merge_twice"
        => /\ Keeps(last.pre, last.once)
           /\ last.once.theme = last.other.theme
           /\ Keeps(last.once, State(songs, playlists, theme))
           /\ theme = last.other.theme

\* A merge has added a song and a playlist to a state that held a song under
\* an id that other uses for a different song, and has replaced the theme.
MergeOnlyAddsWitness ==
    /\ last.op = "merge_twice"
    /\ \E id \in DOMAIN last.pre.songs \cap DOMAIN last.other.songs :
           last.pre.songs[id] /= last.other.songs[id]
    /\ DOMAIN last.once.songs /= DOMAIN last.pre.songs
    /\ DOMAIN last.once.playlists /= DOMAIN last.pre.playlists
    /\ last.pre.playlists /= << >>
    /\ last.pre.theme /= last.once.theme

----------------------------------------------------------------------------
\* The remote display (FairPresentation).

\* The receiver shows the controller's current slide content.
DisplayedIsCurrent ==
    last.displayed = current_slide_content(State(songs, playlists, theme), current_slide).val

\* A step that hands the receiver a message that is not a string, or that
\* does not parse as slide content, leaves the displayed content as it was.
OtherMessageIgnored ==
    (/\ last.to_receiver # << >>
     /\ last'.to_receiver = Tail(last.to_receiver)
     /\ \/ ~Head(last.to_receiver).string
        \/ serde_json_from_str(Head(last.to_receiver)).kind # "Ok")
        => last'.displayed = last.displayed

\* C34: over a connection that stays connected, whatever the order of the
\* connectionavailable handler, the connect event and the receiver attaching
\* its listener, the receiver ends up displaying the controller's current
\* slide content once the slide stops changing (changes made on "prev" and
\* "next" included), and a message that is not a string or does not parse as
\* slide content never changes what is displayed.
RemoteDisplayConverges ==
    /\ <>[]DisplayedIsCurrent
    /\ [][OtherMessageIgnored]_vars

\* The receiver shows a slide reached through a key pressed on the receiver,
\* after it reported a message it could not use.
RemoteDisplayWitness ==
    /\ DisplayedIsCurrent
    /\ last.displayed # SlideContent(None, << >>, None, DefaultTheme)
    /\ last.moved
    /\ last.error # None
    /\ last.to_receiver = << >> /\ last.to_controller = << >>
    /\ ~last.effect /\ ~last.connect_event

----------------------------------------------------------------------------
\* The wake lock sentinels (SpecWakeLock).

\* C35: no wake-lock sentinel is leaked: every sentinel obtained by the guard
\* is the one stored in the guard, or has been released, or is being released
\* by release_sentinel after the drop of the guard.
NoSentinelLeaked ==
    \A k \in DOMAIN last.released :
        \/ last.sentinel = Some(k)
        \/ last.released[k]
        \/ k \in last.releasing

----------------------------------------------------------------------------
\* The lyrics of an ABC tune (SpecAbc).

\* The entries other than "c" are named v1..vn in the order of the verses
\* collected, and the chorus is split off the first verse exactly when it is
\* longer than the longest later verse.
ChorusRule(verses, lyrics) ==
    LET n == Len(verses)
        L == IF n < 2 THEN 0 ELSE Max({Len(verses[i]) : i \in 2..n})
        numbered == SelectSeq(lyrics, LAMBDA entry : entry.name # <<"c">>)
    IN /\ Len(numbered) = n
       /\ \A i \in 1..n : numbered[i].name = <<"v">> \o fmt_int(i)
       /\ IF n >= 2 /\ Len(verses[1]) > L
          THEN /\ Len(lyrics) = n + 1
               /\ lyrics[2] = make_verse(<<"c">>, SubSeq(verses[1], L + 1, Len(verses[1])))
               /\ Len(lyrics[1].lines) = 1
               /\ lyrics[1].lines[1] =
                      lines_to_open_lyrics(
                          [k \in 1..L |-> IF k = 1 THEN verse_number_regex_replace(verses[1][1])
                                          ELSE verses[1][k]])
          ELSE Len(lyrics) = n

\* C36: tunebook_to_open_lyrics returns a song for every tune body, with the
\* verses named v1..vn in input order and the chorus "c" split off the first
\* verse as the second entry exactly when the first verse is longer than the
\* longest later verse.
AbcConversionTotal ==
    last.op = "tunebook_to_open_lyrics"
        => /\ last.ret.kind = "Ok"
           /\ ChorusRule(last.verses.val, last.ret.val)

\* The same for the bodies none of whose verses is left without lines.
AbcConversionOfFullVerses ==
    (/\ last.op = "tunebook_to_open_lyrics"
     /\ last.verses.kind = "Ok"
     /\ \A i \in 1..Len(last.verses.val) : last.verses.val[i] # << >>)
        => /\ last.ret.kind = "Ok"
           /\ ChorusRule(last.verses.val, last.ret.val)
====
